---- MODULE Spec2Model ----
(***************************************************************************)
(* A model of src/7zip_cli.py (SevenZipCLI), the interactive front-end of  *)
(* the 7-Zip archiver.                                                     *)
(*                                                                         *)
(* Strings are sequences of tokens: a token is a separator ("/"), a        *)
(* backslash, a space, a quote, a dot, or a run of ordinary characters.    *)
(* Python's str.startswith is then the prefix test on token sequences, and *)
(* the os.path functions are computed on the tokens as posixpath computes  *)
(* them on the characters.  Python's None is the empty sequence wherever   *)
(* the code only tests the value for truth.                                *)
(*                                                                         *)
(* The module holds one specification per operation of the program:        *)
(*   SpecExtract    extract_archive                                        *)
(*   SpecPrefs      load_preferences, save_preferences, reset_preferences  *)
(*   SpecResources  check_system_resources_before_operation                *)
(*   SpecCreate     get_file_paths, validate_files_for_archiving and the   *)
(*                  command of create_archive                              *)
(***************************************************************************)
EXTENDS Integers, Sequences, FiniteSets, TLC

VARIABLES
    \* ---- extract_archive
    epc,              \* position in extract_archive
    archive_paths,    \* the archives found, in input order
    extraction_mode,  \* "separate" | "combined"
    selected_files,   \* files to extract (single archive only)
    extract_to,       \* the destination directory
    overwrite_flag,   \* <<>> (None) or the -ao.. switch
    resume_choice,    \* the answer to the conflict prompt ("none": not asked)
    policy_prompts,   \* how many times the conflict prompt was shown
    idx,              \* the for loop's index (1-based, as enumerate(.., 1))
    success_count,
    failed_archives,  \* sequence of <<archive_name, reason>>
    aggregate,        \* the summary printed: "none" until the batch completes
    cmds,             \* the archiver invocations made, in order
    attempted,        \* the loop indexes whose body has run, in order
    outcomes,         \* what each pass of the loop body met, in order
    made_dirs,        \* directories created by os.makedirs
    \* ---- the preference store
    ppc,              \* position of the process: "start", "menu", the steps
                      \* of save_preferences, "dead" (ended by an unhandled
                      \* error), "crashed" (killed)
    cfg_file,         \* the content of ~/.7zip_cli_preferences.json
    preferences,      \* self.preferences
    pending,          \* the part of the record json.dump has yet to write
    file_before_save, \* the file as it was when the running save began
    crash_point,      \* the position at which the process was killed
    startup_file,     \* the file as __init__ found it
    \* ---- check_system_resources_before_operation
    rpc,              \* position in the method
    compression_level,
    total_size,
    warnings,         \* the warnings appended so far, by kind
    prompted,         \* how many times the user was asked to continue
    answer,           \* what the user answered ("none": not asked)
    proceed,          \* the value returned ("none": not yet returned)
    vm_stat,          \* how the memory probe went, and what it reported
    load_avg,         \* how the CPU probe went, and what it reported
    \* ---- create_archive
    cpc,              \* position in create_archive
    all_files,        \* get_file_paths: the paths accepted so far
    validated_files,  \* what validate_files_for_archiving returned
    create_cmd,       \* the archiver's argument list (<<>>: not run)
    output_path,      \* the archive to create
    overwrite_existing,
    password,         \* <<>> (None) or the password
    create_level,     \* the compression level get_compression_level gave
    split_size,       \* <<>> (None) or the split token
    tar_warned,       \* the note on TAR and passwords was printed
    first_path,       \* the output path first given
    exists_choice,    \* the answer to "File already exists" ("none": not
                      \* asked)
    candidates,       \* the paths given to get_file_paths while it runs,
                      \* each with the way it came: <<"typed" | "listed",
                      \* path>>
    gates,            \* the checks of create_archive that let the
                      \* operation go on, in the order they did
    \* ---- check_disk_space
    dpc,              \* position in the method
    disk_output_path, \* the argument output_path
    estimated_size_mb, \* the argument: <<>> (None) or <<megabytes>>
    free_at,          \* the free megabytes of each directory's volume
    continue_anyway,  \* what the user typed ("none": not asked)
    disk_outcome,     \* what the method did and returned
    \* ---- get_compression_level
    lpc,              \* position in the method
    level_prompts,    \* the questions asked so far, in order
    menu_choice,      \* the last answer to the preset menu ("none")
    custom_typed,     \* the last answer to "Choose level (0-9)" ("none")
    confirm_typed,    \* the answer to the level 9 question ("none")
    level_returned,   \* the level returned ("none": not yet)
    \* ---- the process and its signal handlers
    mpc,              \* position of the main thread
    operation,        \* the operation the menu started ("none")
    handlers,         \* the signals whose handler is installed
    caffeinate_process, \* self.caffeinate_process
    hpc,              \* position of the signal handler ("idle": not
                      \* running)
    exit_status,      \* "running", or how the process ended: "exit0",
                      \* "exit1", "killed", or the unhandled exception
    signals,          \* how many signals were delivered
    sleep_prompted,   \* start_caffeinate was called in this operation
    goodbyes,         \* how many times the handler reached sys.exit(0)
    \* ---- get_output_path within create_archive
    opc,              \* position in create_archive
    out_sources,      \* the validated sources
    out_call,         \* what the last call of get_output_path did
    out_made,         \* the directories get_output_path created
    out_start,        \* the preferences and their file when the
                      \* operation started
    out_overwrite,    \* overwrite_existing
    out_path          \* output_path

evars == <<epc, archive_paths, extraction_mode, selected_files, extract_to,
           overwrite_flag, resume_choice, policy_prompts, idx, success_count,
           failed_archives, aggregate, cmds, attempted, outcomes,
           made_dirs>>

pvars == <<ppc, cfg_file, preferences, pending, file_before_save,
           crash_point, startup_file>>

rvars == <<rpc, compression_level, total_size, warnings, prompted, answer,
           proceed, vm_stat, load_avg>>

\* what create_archive settles between validation and the command
plan_vars == <<output_path, overwrite_existing, password, create_level,
               split_size, tar_warned, first_path, exists_choice>>

cvars == <<cpc, all_files, validated_files, create_cmd, plan_vars,
           candidates, gates>>

dvars == <<dpc, disk_output_path, estimated_size_mb, free_at,
           continue_anyway, disk_outcome>>

lvars == <<lpc, level_prompts, menu_choice, custom_typed, confirm_typed,
           level_returned>>

svars == <<mpc, operation, handlers, caffeinate_process, hpc, exit_status,
           signals, sleep_prompted, goodbyes>>

ovars == <<opc, out_sources, out_call, out_made, out_start, out_overwrite,
           out_path>>

vars == <<evars, pvars, rvars, cvars, dvars, lvars, svars, ovars>>

EFrame == UNCHANGED <<pvars, rvars, cvars, dvars, lvars, svars, ovars>>
PFrame == UNCHANGED <<evars, rvars, cvars, dvars, lvars, svars, ovars>>
RFrame == UNCHANGED <<evars, pvars, cvars, dvars, lvars, svars, ovars>>
CFrame == UNCHANGED <<evars, pvars, rvars, dvars, lvars, svars, ovars>>
DFrame == UNCHANGED <<evars, pvars, rvars, cvars, lvars, svars, ovars>>
LFrame == UNCHANGED <<evars, pvars, rvars, cvars, dvars, svars, ovars>>
SFrame == UNCHANGED <<evars, pvars, rvars, cvars, dvars, lvars, ovars>>
OFrame == UNCHANGED <<evars, rvars, cvars, dvars, lvars, svars, ppc, pending, file_before_save, crash_point, startup_file>>

----------------------------------------------------------------------------
(* Bounds *)

MaxArchives == 3

\* the most paths one create operation takes in
MaxPaths == 2

\* the most times a question is asked again after an invalid answer
MaxAsked == 2

----------------------------------------------------------------------------
(* Strings *)

BS == "\\"
SP == " "
QT == "'"
SEP == "/"
DOT == "."

RECURSIVE LastIndexOf(_, _)
LastIndexOf(s, t) ==
    IF s = <<>> THEN 0
    ELSE IF s[Len(s)] = t THEN Len(s)
    ELSE LastIndexOf(SubSeq(s, 1, Len(s) - 1), t)

StartsWith(s, p) == Len(p) <= Len(s) /\ SubSeq(s, 1, Len(p)) = p

EndsWith(s, p) ==
    Len(p) <= Len(s) /\ SubSeq(s, Len(s) - Len(p) + 1, Len(s)) = p

RECURSIVE LStrip(_, _)
LStrip(s, chars) ==
    IF s # <<>> /\ s[1] \in chars THEN LStrip(Tail(s), chars) ELSE s

RECURSIVE RStrip(_, _)
RStrip(s, chars) ==
    IF s # <<>> /\ s[Len(s)] \in chars
    THEN RStrip(SubSeq(s, 1, Len(s) - 1), chars) ELSE s

Strip(s, chars) == RStrip(LStrip(s, chars), chars)

\* str.replace of the four two-character patterns, left to right
Escapable == {SP, "(", ")", "&"}

RECURSIVE Unescape(_)
Unescape(s) ==
    IF Len(s) < 2 THEN s
    ELSE IF s[1] = BS /\ s[2] \in Escapable
         THEN <<s[2]>> \o Unescape(SubSeq(s, 3, Len(s)))
         ELSE <<s[1]>> \o Unescape(Tail(s))

\* clean_macos_path: the pair (cleaned, unescaped)
clean_macos_path(path) ==
    LET cleaned == Strip(Strip(path, {SP}), {QT, "\""})
    IN  <<cleaned, Unescape(cleaned)>>

----------------------------------------------------------------------------
(* os.path *)

basename(p) == SubSeq(p, LastIndexOf(p, SEP) + 1, Len(p))

dirname(p) ==
    LET head == SubSeq(p, 1, LastIndexOf(p, SEP))
    IN  IF head # <<>> /\ LStrip(head, {SEP}) # <<>>
        THEN RStrip(head, {SEP}) ELSE head

\* genericpath._splitext: the last dot of the last component, unless only
\* dots precede it in that component
RECURSIVE OnlyDots(_)
OnlyDots(s) == s = <<>> \/ (s[1] = DOT /\ OnlyDots(Tail(s)))

splitext(p) ==
    LET sepIndex == LastIndexOf(p, SEP)
        dotIndex == LastIndexOf(p, DOT)
    IN  IF dotIndex > sepIndex
           /\ ~OnlyDots(SubSeq(p, sepIndex + 1, dotIndex - 1))
        THEN <<SubSeq(p, 1, dotIndex - 1), SubSeq(p, dotIndex, Len(p))>>
        ELSE <<p, <<>>>>

join(a, b) ==
    IF StartsWith(b, <<SEP>>) THEN b
    ELSE IF a = <<>> \/ EndsWith(a, <<SEP>>) THEN a \o b
    ELSE a \o <<SEP>> \o b

\* the components of a path: the runs of tokens between separators
RECURSIVE Components(_)
Components(p) ==
    IF p = <<>> THEN <<>>
    ELSE IF p[1] = SEP THEN Components(Tail(p))
    ELSE LET rest == Tail(p)
             more == Components(rest)
         IN  IF rest = <<>> \/ rest[1] = SEP THEN <<<<p[1]>>>> \o more
             ELSE <<<<p[1]>> \o Head(more)>> \o Tail(more)

RECURSIVE JoinComponents(_)
JoinComponents(cs) ==
    IF cs = <<>> THEN <<>>
    ELSE IF Len(cs) = 1 THEN cs[1]
    ELSE cs[1] \o <<SEP>> \o JoinComponents(Tail(cs))

\* posixpath.normpath's loop over the components
RECURSIVE NormComps(_, _, _)
NormComps(cs, acc, rooted) ==
    IF cs = <<>> THEN acc
    ELSE LET c == Head(cs) IN
         IF c = <<DOT>> THEN NormComps(Tail(cs), acc, rooted)
         ELSE IF c # <<"..">>
                 \/ (~rooted /\ acc = <<>>)
                 \/ (acc # <<>> /\ acc[Len(acc)] = <<"..">>)
              THEN NormComps(Tail(cs), Append(acc, c), rooted)
         ELSE IF acc # <<>>
              THEN NormComps(Tail(cs), SubSeq(acc, 1, Len(acc) - 1), rooted)
         ELSE NormComps(Tail(cs), acc, rooted)

\* posixpath.normpath: exactly two leading slashes are kept
InitialSlashes(p) ==
    IF ~StartsWith(p, <<SEP>>) THEN 0
    ELSE IF StartsWith(p, <<SEP, SEP>>) /\ ~StartsWith(p, <<SEP, SEP, SEP>>)
         THEN 2
    ELSE 1

normpath(p) ==
    LET n    == InitialSlashes(p)
        body == JoinComponents(NormComps(Components(p), <<>>, n > 0))
        lead == IF n = 2 THEN <<SEP, SEP>> ELSE IF n = 1 THEN <<SEP>> ELSE <<>>
        path == lead \o body
    IN  IF path = <<>> THEN <<DOT>> ELSE path

----------------------------------------------------------------------------
(* The file system the program runs on *)

\* os.getcwd()
Cwd == <<SEP, "w">>

abspath(p) == normpath(IF StartsWith(p, <<SEP>>) THEN p ELSE join(Cwd, p))

\* entries as component sequences from the root
BaseDirs ==
    { <<>>,
      << <<"w">> >>,
      << <<"w">>, <<"d">> >>,
      << <<"w">>, <<"d">>, <<"extracted">> >>,
      << <<"out">> >>,
      << <<"System">> >>,
      << <<"System">>, <<"Library">> >>,
      << <<"usr">> >>,
      << <<"usr">>, <<"bin">> >>,
      << <<"private">> >>,
      << <<"home">> >>,
      << <<"home">>, <<"Desktop">> >> }

BaseFiles ==
    { << <<"w">>, <<"a", DOT, "7z">> >>,
      << <<"w">>, <<"a", DOT, "zip">> >>,
      << <<"w">>, <<"d">>, <<"b", DOT, "7z">> >>,
      << <<"w">>, <<"d">>, <<"extracted">>, <<"old">> >>,
      << <<"w">>, <<"f1">> >>,
      << <<"w">>, <<"my", SP, "f2">> >>,
      << <<"w">>, <<"odd", BS, SP, "n">> >>,
      << <<"w">>, <<SP, "lead">> >>,
      << <<"out">>, <<"old">> >>,
      << <<"System">>, <<"Library">>, <<"x">> >>,
      << <<"usr">>, <<"bin">>, <<"ls">> >>,
      << <<"private">>, <<"p">> >> }

NoEntry == << <<"?">> >>

\* the kernel's path walk: every directory on the way has to exist
RECURSIVE Walk(_, _, _)
Walk(cur, cs, dirs) ==
    IF cs = <<>> THEN cur
    ELSE IF cur \notin dirs THEN NoEntry
    ELSE LET c == Head(cs) IN
         IF c = <<DOT>> THEN Walk(cur, Tail(cs), dirs)
         ELSE IF c = <<"..">>
              THEN Walk(IF cur = <<>> THEN cur
                        ELSE SubSeq(cur, 1, Len(cur) - 1), Tail(cs), dirs)
         ELSE Walk(Append(cur, c), Tail(cs), dirs)

\* the entry a path names, from the root or from the working directory
Entry(p, dirs) ==
    Walk(IF StartsWith(p, <<SEP>>) THEN <<>> ELSE Components(Cwd),
         Components(p), dirs)

\* os.path.exists
exists(p, made) ==
    /\ p # <<>>
    /\ Entry(p, BaseDirs \cup made) \in (BaseDirs \cup BaseFiles \cup made)

\* os.listdir(p) is not empty
has_entries(p, made) ==
    LET e == Entry(p, BaseDirs \cup made)
    IN  \E x \in BaseDirs \cup BaseFiles \cup made :
            x # <<>> /\ SubSeq(x, 1, Len(x) - 1) = e

\* the directories os.makedirs(p, exist_ok=True) leaves in place
Prefixes(cs) == { SubSeq(cs, 1, n) : n \in 0..Len(cs) }

makedirs(p, made) ==
    made \cup (Prefixes(Components(abspath(p))) \ BaseDirs)

----------------------------------------------------------------------------
(* extract_archive *)

\* what the user may type at the archive prompt, after .split()
RawArchives ==
    { <<"a", DOT, "7z">>,
      <<"a", DOT, "zip">>,
      <<"d", SEP, "b", DOT, "7z">>,
      <<"gone", DOT, "7z">> }

RECURSIVE SeqsUpTo(_, _)
SeqsUpTo(S, n) ==
    IF n = 0 THEN {<<>>}
    ELSE LET shorter == SeqsUpTo(S, n - 1)
         IN  shorter \cup { Append(q, x) : q \in shorter, x \in S }

ArchiveInputs == SeqsUpTo(RawArchives, MaxArchives)

\* what the user may type at the destination prompt (empty: the default)
DestInputs == { <<>>, <<SEP, "out">>, <<"new">> }

\* the try-original-then-unescaped chain of lines 1177-1186
RECURSIVE FindArchives(_, _)
FindArchives(raw, made) ==
    IF raw = <<>> THEN <<>>
    ELSE LET forms == clean_macos_path(Head(raw))
             rest  == FindArchives(Tail(raw), made)
         IN  IF exists(forms[1], made) THEN <<forms[1]>> \o rest
             ELSE IF exists(forms[2], made) THEN <<forms[2]>> \o rest
             ELSE rest

\* the switches of "overwrite all" and "ask for each" exchanged
OverwriteFlagFor_Swapped(choice) ==
    IF choice = "2" THEN <<"-ao">>
    ELSE IF choice = "3" THEN <<"-aoa">>
    ELSE <<"-aos">>

\* lines 1262-1273: the switch for the answer to the conflict prompt
OverwriteFlagFor(choice) ==
    IF choice = "2" THEN <<"-aoa">>
    ELSE IF choice = "3" THEN <<"-ao">>
    ELSE <<"-aos">>

\* lines 1296-1309: where one archive's contents go
JobDest(mode, n, dest, archive_path) ==
    IF mode = "separate" /\ n > 1
    THEN join(dest, splitext(basename(archive_path))[1])
    ELSE dest

\* lines 1314-1322: the archiver's argument list for one archive
ExtractCmd(archive_path, current_dest, flag, selected, n) ==
    << <<"7zz">>, <<"x">>, archive_path, <<"-o">> \o current_dest, <<"-y">> >>
    \o (IF flag # <<>> THEN <<flag>> ELSE <<>>)
    \o (IF selected # <<>> /\ n = 1 THEN selected ELSE <<>>)

\* what one pass of the loop body can meet
JobOutcomes == {"exit0", "exit_nonzero", "launch_exception", "mkdir_failed"}

\* a break in place of the continue of line 1307
NextJob_BreakOnMkdirFailure(i, outcome) ==
    IF outcome = "mkdir_failed" THEN i + MaxArchives + 1 ELSE i + 1

\* line 1295: the for loop moves to the next archive whatever the body did
NextJob(i, outcome) == i + 1

\* lines 1329-1333
SuccessAfter(count, outcome) ==
    IF outcome = "exit0" THEN count + 1 ELSE count

\* the except branch of line 1336 not recording the failure
FailedAfter_ExceptionDropped(failed, name, outcome) ==
    IF outcome = "exit_nonzero"
    THEN Append(failed, <<name, "error code 2">>)
    ELSE failed

\* lines 1306, 1331, 1338
FailedAfter(failed, name, outcome) ==
    IF outcome = "exit0" THEN failed
    ELSE IF outcome = "exit_nonzero"
         THEN Append(failed, <<name, "error code 2">>)
    ELSE Append(failed, <<name, "exception">>)

\* lines 1345-1364: which of the three summaries is printed
Aggregate(succeeded, n) ==
    IF succeeded = n THEN "AllSucceeded"
    ELSE IF succeeded > 0 THEN "PartialSuccess"
    ELSE "AllFailed"

InitExtract ==
    /\ epc = "archives"
    /\ archive_paths = <<>>
    /\ extraction_mode = "separate"
    /\ selected_files = <<>>
    /\ extract_to = <<>>
    /\ overwrite_flag = <<>>
    /\ resume_choice = "none"
    /\ policy_prompts = 0
    /\ idx = 0
    /\ success_count = 0
    /\ failed_archives = <<>>
    /\ aggregate = "none"
    /\ cmds = <<>>
    /\ attempted = <<>>
    /\ outcomes = <<>>
    /\ made_dirs = {}

\* lines 1167-1194
ExtractArchives ==
    /\ EFrame
    /\ epc = "archives"
    /\ \E raw \in ArchiveInputs :
         LET found == FindArchives(raw, made_dirs) IN
         /\ archive_paths' = found
         /\ epc' = IF found = <<>> THEN "returned" ELSE "options"
    /\ UNCHANGED <<extraction_mode, selected_files, extract_to, overwrite_flag,
                   resume_choice, policy_prompts, idx, success_count,
                   failed_archives, aggregate, cmds, attempted, outcomes, made_dirs>>

\* lines 1196-1204: several archives
ExtractMode ==
    /\ EFrame
    /\ epc = "options"
    /\ Len(archive_paths) > 1
    /\ \E mode_choice \in {"", "1", "2"} :
         extraction_mode' = IF mode_choice = "2" THEN "combined" ELSE "separate"
    /\ epc' = "dest"
    /\ UNCHANGED <<archive_paths, selected_files, extract_to, overwrite_flag,
                   resume_choice, policy_prompts, idx, success_count,
                   failed_archives, aggregate, cmds, attempted, outcomes, made_dirs>>

\* lines 1206-1231: one archive
ExtractSelect ==
    /\ EFrame
    /\ epc = "options"
    /\ Len(archive_paths) = 1
    /\ \E choice \in {"1", "2"}, file_input \in {<<>>, << <<"x">> >>} :
         IF choice = "2"
         THEN /\ selected_files' = file_input
              /\ epc' = IF file_input = <<>> THEN "returned" ELSE "dest"
         ELSE /\ selected_files' = <<>>
              /\ epc' = "dest"
    /\ UNCHANGED <<archive_paths, extraction_mode, extract_to, overwrite_flag,
                   resume_choice, policy_prompts, idx, success_count,
                   failed_archives, aggregate, cmds, attempted, outcomes, made_dirs>>

\* lines 1233-1248
ExtractDest ==
    /\ EFrame
    /\ epc = "dest"
    /\ \E extract_input \in DestInputs, created \in BOOLEAN :
         LET dest == IF extract_input = <<>>
                     THEN join(dirname(archive_paths[1]), <<"extracted">>)
                     ELSE clean_macos_path(extract_input)[2]
         IN  /\ extract_to' = dest
             /\ IF exists(dest, made_dirs) \/ created
                THEN made_dirs' = makedirs(dest, made_dirs)
                     /\ epc' = "conflict"
                ELSE made_dirs' = made_dirs /\ epc' = "returned"
    /\ UNCHANGED <<archive_paths, extraction_mode, selected_files,
                   overwrite_flag, resume_choice, policy_prompts, idx,
                   success_count, failed_archives, aggregate, cmds, attempted, outcomes>>

\* lines 1250-1273: the destination holds entries
ExtractConflict ==
    /\ EFrame
    /\ epc = "conflict"
    /\ exists(extract_to, made_dirs) /\ has_entries(extract_to, made_dirs)
    /\ \E choice \in {"", "1", "2", "3", "4"} :
         /\ resume_choice' = choice
         /\ policy_prompts' = policy_prompts + 1
         /\ IF choice = "4"
            THEN overwrite_flag' = overwrite_flag /\ epc' = "returned"
            ELSE overwrite_flag' = OverwriteFlagFor(choice) /\ epc' = "confirm"
    /\ UNCHANGED <<archive_paths, extraction_mode, selected_files, extract_to,
                   idx, success_count, failed_archives, aggregate, cmds,
                   attempted, outcomes, made_dirs>>

\* line 1252: the destination is empty
ExtractNoConflict ==
    /\ EFrame
    /\ epc = "conflict"
    /\ ~(exists(extract_to, made_dirs) /\ has_entries(extract_to, made_dirs))
    /\ epc' = "confirm"
    /\ UNCHANGED <<archive_paths, extraction_mode, selected_files, extract_to,
                   overwrite_flag, resume_choice, policy_prompts, idx,
                   success_count, failed_archives, aggregate, cmds, attempted, outcomes,
                   made_dirs>>

\* lines 1287-1293
ExtractConfirm ==
    /\ EFrame
    /\ epc = "confirm"
    /\ \E confirm \in {"y", "n"} :
         epc' = IF confirm # "y" THEN "returned" ELSE "loop"
    /\ idx' = 1
    /\ success_count' = 0
    /\ failed_archives' = <<>>
    /\ UNCHANGED <<archive_paths, extraction_mode, selected_files, extract_to,
                   overwrite_flag, resume_choice, policy_prompts, aggregate,
                   cmds, attempted, outcomes, made_dirs>>

\* lines 1295-1338: one pass of the loop body
ExtractJob ==
    /\ EFrame
    /\ epc = "loop"
    /\ idx <= Len(archive_paths)
    /\ \E outcome \in JobOutcomes :
         LET n            == Len(archive_paths)
             archive_path == archive_paths[idx]
             archive_name == basename(archive_path)
             separate     == extraction_mode = "separate" /\ n > 1
             current_dest == JobDest(extraction_mode, n, extract_to,
                                     archive_path)
         IN  /\ outcome = "mkdir_failed" =>
                    separate /\ ~exists(current_dest, made_dirs)
             /\ attempted' = Append(attempted, idx)
             /\ outcomes' = Append(outcomes, outcome)
             /\ made_dirs' = IF separate /\ outcome # "mkdir_failed"
                             THEN makedirs(current_dest, made_dirs)
                             ELSE made_dirs
             /\ cmds' = IF outcome = "mkdir_failed" THEN cmds
                        ELSE Append(cmds, ExtractCmd(archive_path, current_dest,
                                                     overwrite_flag,
                                                     selected_files, n))
             /\ success_count' = SuccessAfter(success_count, outcome)
             /\ failed_archives' =
                    FailedAfter(failed_archives, archive_name, outcome)
             /\ idx' = NextJob(idx, outcome)
    /\ UNCHANGED <<epc, archive_paths, extraction_mode, selected_files,
                   extract_to, overwrite_flag, resume_choice, policy_prompts,
                   aggregate>>

\* lines 1340-1368: the loop is over, the summary is printed
ExtractSummary ==
    /\ EFrame
    /\ epc = "loop"
    /\ idx > Len(archive_paths)
    /\ aggregate' = Aggregate(success_count, Len(archive_paths))
    /\ epc' = "completed"
    /\ UNCHANGED <<archive_paths, extraction_mode, selected_files, extract_to,
                   overwrite_flag, resume_choice, policy_prompts, idx,
                   success_count, failed_archives, cmds, attempted, outcomes, made_dirs>>

NextExtract ==
    \/ ExtractArchives
    \/ ExtractMode
    \/ ExtractSelect
    \/ ExtractDest
    \/ ExtractConflict
    \/ ExtractNoConflict
    \/ ExtractConfirm
    \/ ExtractJob
    \/ ExtractSummary

----------------------------------------------------------------------------
(* The preference store *)

\* Values are written as their JSON text: "5", "true", "\"fast\"" without the
\* quotes.  A dict is a function from its keys; json.dump writes its items
\* one after the other, in the order of KeyOrder.
\* os.path.expanduser("~/Desktop")
Desktop == <<SEP, "home", SEP, "Desktop">>
DefaultPatterns == <<".DS_Store", ".Thumbs.db", "Thumbs.db">>

\* lines 73-81
default_preferences ==
    [k \in { "compression_preset", "custom_compression_level",
             "default_output_directory", "auto_open_after_extract",
             "exclude_patterns", "remember_last_directory",
             "last_output_directory" } |->
        CASE k = "compression_preset"       -> "balanced"
          [] k = "custom_compression_level" -> "5"
          [] k = "default_output_directory" -> Desktop
          [] k = "auto_open_after_extract"  -> "false"
          [] k = "exclude_patterns"         -> DefaultPatterns
          [] k = "remember_last_directory"  -> "true"
          [] k = "last_output_directory"    -> Desktop]

KeyOrder ==
    << "compression_preset", "custom_compression_level",
       "default_output_directory", "auto_open_after_extract",
       "exclude_patterns", "remember_last_directory",
       "last_output_directory", "theme" >>

\* dict.update with a sequence of items: each has to be a pair
RECURSIVE DictUpdate(_, _)
DictUpdate(d, items) ==
    IF items = <<>> THEN d
    ELSE LET it == Head(items)
             nd == [k \in DOMAIN d \cup {it[1]} |->
                        IF k = it[1] THEN it[2] ELSE d[k]]
         IN  DictUpdate(nd, Tail(items))

\* the items of a dict, as json.dump writes them
RECURSIVE ItemsFrom(_, _)
ItemsFrom(d, keys) ==
    IF keys = <<>> THEN <<>>
    ELSE (IF Head(keys) \in DOMAIN d
          THEN << <<Head(keys), d[Head(keys)]>> >> ELSE <<>>)
         \o ItemsFrom(d, Tail(keys))

Items(d) == ItemsFrom(d, KeyOrder)

\* The file: absent, or a text.  kind "object" is the text of a JSON object,
\* complete once its closing brace is written (json.load of an incomplete
\* text raises JSONDecodeError, as it does of "garbage" and of an empty
\* file); "list", "string", "number" and "null" are texts of other JSON
\* values, a list's elements being pairs <<k, v>> or scalars <<x>>, a
\* string's being its characters.
File(kind, items, complete) ==
    [kind |-> kind, items |-> items, complete |-> complete]

Absent == File("absent", <<>>, FALSE)

FileOf(d) == File("object", Items(d), TRUE)

Parsable(f) ==
    \/ f.kind = "object" /\ f.complete
    \/ f.kind \in {"list", "string", "number", "null"}

\* a file that holds a complete record
ValidRecord(f) == f.kind = "object" /\ f.complete

\* dict.update(loaded_prefs) raises TypeError or ValueError, which line 90
\* does not catch
UpdateRaises(f) ==
    \/ f.kind \in {"number", "null"}
    \/ f.kind \in {"list", "string"}
       /\ \E k \in 1..Len(f.items) : Len(f.items[k]) # 2

\* load_preferences with the merge of line 88 left out
load_preferences_MergeDropped(f) ==
    IF f.kind = "absent"
    THEN [raised |-> FALSE, warned |-> FALSE, prefs |-> default_preferences]
    ELSE IF ~Parsable(f)
    THEN [raised |-> FALSE, warned |-> TRUE, prefs |-> default_preferences]
    ELSE IF UpdateRaises(f)
    THEN [raised |-> TRUE, warned |-> FALSE, prefs |-> default_preferences]
    ELSE [raised |-> FALSE, warned |-> FALSE, prefs |-> default_preferences]

\* lines 83-92: load_preferences on a file.  raised: an error left the
\* method; warned: the except branch of line 90 ran
load_preferences(f) ==
    IF f.kind = "absent"
    THEN [raised |-> FALSE, warned |-> FALSE, prefs |-> default_preferences]
    ELSE IF ~Parsable(f)
    THEN [raised |-> FALSE, warned |-> TRUE, prefs |-> default_preferences]
    ELSE IF UpdateRaises(f)
    THEN [raised |-> TRUE, warned |-> FALSE, prefs |-> default_preferences]
    ELSE [raised |-> FALSE, warned |-> FALSE,
          prefs |-> DictUpdate(default_preferences, f.items)]

\* the files the program may find at startup
InitialFiles ==
    { Absent,
      File("object", <<>>, TRUE),
      File("object", << <<"compression_preset", "fast">> >>, TRUE),
      File("object", << <<"compression_preset", "custom">>,
                        <<"custom_compression_level", "12">> >>, TRUE),
      FileOf(default_preferences),
      File("object", << <<"compression_preset", "fast">> >>, FALSE),
      File("object", <<>>, FALSE),
      File("garbage", <<>>, FALSE),
      File("list", <<>>, TRUE),
      File("list", << <<"1">>, <<"2">> >>, TRUE),
      File("list", << <<"compression_preset", "fast">> >>, TRUE),
      File("string", <<>>, TRUE),
      File("string", << <<"a">>, <<"b">> >>, TRUE),
      File("number", <<>>, TRUE),
      File("null", <<>>, TRUE) }

InitPrefs ==
    /\ ppc = "start"
    /\ cfg_file \in InitialFiles
    /\ preferences = default_preferences
    /\ pending = <<>>
    /\ file_before_save = Absent
    /\ crash_point = "none"
    /\ startup_file = Absent

\* lines 33-36: __init__ loads the preferences; nothing catches what
\* load_preferences lets through (lines 1980-1981)
PrefsStartup ==
    /\ PFrame
    /\ ppc = "start"
    /\ LET r == load_preferences(cfg_file) IN
         /\ preferences' = r.prefs
         /\ ppc' = IF r.raised THEN "dead" ELSE "menu"
    /\ startup_file' = cfg_file
    /\ UNCHANGED <<cfg_file, pending, file_before_save, crash_point>>

\* lines 1690-1744: compression_preferences, up to its call of
\* save_preferences
CompressionPreferences ==
    /\ PFrame
    /\ ppc = "menu"
    /\ \E choice \in {"1", "2", "3", "4", "5", "6", "7", "x"},
          level \in {"0", "9", "12", "many"} :
         LET set(preset) ==
                 [preferences EXCEPT !["compression_preset"] = preset]
         IN  CASE choice = "1" -> preferences' = set("fast")
                                  /\ ppc' = "save_open"
               [] choice = "2" -> preferences' = set("balanced")
                                  /\ ppc' = "save_open"
               [] choice = "3" -> preferences' = set("maximum")
                                  /\ ppc' = "save_open"
               [] choice \in {"4", "6"} -> preferences' = set("ask")
                                           /\ ppc' = "save_open"
               [] choice = "5" ->
                    IF level \in {"0", "9"}
                    THEN /\ preferences' =
                              [preferences EXCEPT
                                   !["compression_preset"] = "custom",
                                   !["custom_compression_level"] = level]
                         /\ ppc' = "save_open"
                    ELSE UNCHANGED <<preferences, ppc>>
               [] OTHER -> UNCHANGED <<preferences, ppc>>
    /\ UNCHANGED <<cfg_file, pending, file_before_save, crash_point,
                   startup_file>>

\* lines 102-108: reset_preferences, up to its call of save_preferences;
\* an error of os.remove leaves the method and the menus (lines 1666-1688,
\* 1923-1943 catch KeyboardInterrupt only)
ResetPreferences ==
    /\ PFrame
    /\ ppc = "menu"
    /\ \E removed \in BOOLEAN :
         IF cfg_file.kind # "absent" /\ ~removed
         THEN /\ ppc' = "dead"
              /\ UNCHANGED <<cfg_file, preferences>>
         ELSE /\ cfg_file' = Absent
              /\ preferences' = load_preferences(Absent).prefs
              /\ ppc' = "save_open"
    /\ UNCHANGED <<pending, file_before_save, crash_point, startup_file>>

\* line 97: open(.., 'w') truncates the file; an IOError is caught (line 99)
SaveOpen ==
    /\ PFrame
    /\ ppc = "save_open"
    /\ \E opened \in BOOLEAN :
         IF opened
         THEN /\ file_before_save' = cfg_file
              /\ cfg_file' = File("object", <<>>, FALSE)
              /\ pending' = Items(preferences)
              /\ ppc' = "save_write"
         ELSE /\ ppc' = "menu"
              /\ UNCHANGED <<cfg_file, pending, file_before_save>>
    /\ UNCHANGED <<preferences, crash_point, startup_file>>

\* line 98: json.dump writes the record piece by piece
SaveWrite ==
    /\ PFrame
    /\ ppc = "save_write"
    /\ pending # <<>>
    /\ cfg_file' = [cfg_file EXCEPT !.items = Append(@, Head(pending))]
    /\ pending' = Tail(pending)
    /\ UNCHANGED <<ppc, preferences, file_before_save, crash_point,
                   startup_file>>

\* line 98, the last piece, and the end of the with block
SaveClose ==
    /\ PFrame
    /\ ppc = "save_write"
    /\ pending = <<>>
    /\ cfg_file' = [cfg_file EXCEPT !.complete = TRUE]
    /\ file_before_save' = Absent
    /\ ppc' = "menu"
    /\ UNCHANGED <<preferences, pending, crash_point, startup_file>>

\* the process is killed, or the machine loses power
Crash ==
    /\ PFrame
    /\ ppc \notin {"start", "dead", "crashed"}
    /\ crash_point' = ppc
    /\ ppc' = "crashed"
    /\ UNCHANGED <<cfg_file, preferences, pending, file_before_save,
                   startup_file>>

\* the program is started again
Restart ==
    /\ PFrame
    /\ ppc \in {"dead", "crashed"}
    /\ ppc' = "start"
    /\ preferences' = default_preferences
    /\ pending' = <<>>
    /\ file_before_save' = Absent
    /\ crash_point' = "none"
    /\ startup_file' = Absent
    /\ UNCHANGED cfg_file

NextPrefs ==
    \/ PrefsStartup
    \/ CompressionPreferences
    \/ ResetPreferences
    \/ SaveOpen
    \/ SaveWrite
    \/ SaveClose
    \/ Crash
    \/ Restart

----------------------------------------------------------------------------
(* check_system_resources_before_operation *)

\* the levels get_compression_level can hand over: 0..9, and a custom level
\* read from the preference file as it stands (lines 718-719)
Levels == 0..9 \cup {12}

\* line 209, in tenths of a gigabyte; line 210: 3 GB for any other level
memory_multiplier ==
    [l \in 0..9 |->
        CASE l = 0 -> 1   [] l = 1 -> 2   [] l = 2 -> 5   [] l = 3 -> 10
          [] l = 4 -> 20  [] l = 5 -> 30  [] l = 6 -> 50  [] l = 7 -> 80
          [] l = 8 -> 120 [] l = 9 -> 160]

estimated_memory_tenths(level) ==
    IF level \in DOMAIN memory_multiplier THEN memory_multiplier[level] ELSE 30

KBPerGB == 1048576

\* what running vm_stat can give: an exception (the command is missing:
\* "cannot_run", it times out: "timeout", or it prints a number int() cannot
\* read: "bad_number"), a nonzero return code, an output without any of the
\* lines looked for (the counts stay 0), or the page counts, here as the
\* kilobytes they add up to
ProbeExceptions == {"cannot_run", "timeout", "bad_number"}

VmStatResults ==
    { [how |-> h, kb |-> 0] :
          h \in ProbeExceptions \cup {"nonzero", "no_counts"} }
    \cup { [how |-> "ok", kb |-> kb] :
              kb \in { 51200, 2097151, 2097152, 12582912, 16777216,
                       20971520 } }

\* lines 212-216: the warnings of a successful probe
MemoryWarnings(level, kb) ==
    (IF estimated_memory_tenths(level) * KBPerGB > kb * 10
     THEN <<"memory_needed">> ELSE <<>>)
    \o (IF kb < 2 * KBPerGB THEN <<"low_memory">> ELSE <<>>)

\* lines 218-221: the warning of a failed probe
ProbeFailureWarnings(level) ==
    IF level >= 8 THEN <<"extreme_level">> ELSE <<>>

\* lines 225-230, the load average in hundredths
CpuWarnings(load100, cpu_count) ==
    IF load100 > 70 * cpu_count THEN <<"high_cpu">> ELSE <<>>

\* str.lower on what the user may type
lower(typed) == IF typed = "Y" THEN "y" ELSE typed

\* the second question taking the empty answer for a yes
Affirmative_EmptyMeansYes(level, ans) ==
    IF level >= 8 THEN ans = "y" ELSE ans \in {"y", "yes", ""}

\* lines 245-251: which answers let the operation go on
Affirmative(level, ans) ==
    IF level >= 8 THEN ans = "y" ELSE ans \in {"y", "yes"}

NotProbed == [how |-> "none"]

InitResources ==
    /\ rpc = "idle"
    /\ compression_level = 5
    /\ total_size = 0
    /\ warnings = <<>>
    /\ prompted = 0
    /\ answer = "none"
    /\ proceed = "none"
    /\ vm_stat = NotProbed
    /\ load_avg = NotProbed

\* line 180-182: the call
ResourcesCall ==
    /\ RFrame
    /\ rpc = "idle"
    /\ \E level \in Levels, size \in {0, 1} :
         /\ compression_level' = level
         /\ total_size' = size
    /\ warnings' = <<>>
    /\ rpc' = "memory"
    /\ UNCHANGED <<prompted, answer, proceed, vm_stat, load_avg>>

\* lines 184-221: the memory probe
ResourcesMemory ==
    /\ RFrame
    /\ rpc = "memory"
    /\ \E vm \in VmStatResults :
         /\ warnings' = warnings \o
             (CASE vm.how \in {"ok", "no_counts"} ->
                       MemoryWarnings(compression_level, vm.kb)
                [] vm.how = "nonzero" -> <<>>
                [] vm.how \in ProbeExceptions ->
                       ProbeFailureWarnings(compression_level))
         /\ vm_stat' = vm
    /\ rpc' = "cpu"
    /\ UNCHANGED <<compression_level, total_size, prompted, answer, proceed,
                   load_avg>>

\* lines 223-232: the CPU probe; a failure is passed over
ResourcesCpu ==
    /\ RFrame
    /\ rpc = "cpu"
    /\ \E failed \in BOOLEAN, load100 \in {50, 280, 281}, cpu_count \in {1, 4} :
         /\ warnings' = warnings \o
                (IF failed THEN <<>> ELSE CpuWarnings(load100, cpu_count))
         /\ load_avg' = [how |-> IF failed THEN "failed" ELSE "ok",
                         load100 |-> load100, cpu_count |-> cpu_count]
    /\ rpc' = "decide"
    /\ UNCHANGED <<compression_level, total_size, prompted, answer, proceed,
                   vm_stat>>

\* lines 235-251: warnings were issued, the user is asked
ResourcesPrompt ==
    /\ RFrame
    /\ rpc = "decide"
    /\ warnings # <<>>
    /\ \E typed \in {"y", "Y", "yes", "n", ""} :
         /\ answer' = lower(typed)
         /\ proceed' = IF Affirmative(compression_level, lower(typed))
                       THEN "yes" ELSE "no"
    /\ prompted' = prompted + 1
    /\ rpc' = "returned"
    /\ UNCHANGED <<compression_level, total_size, warnings, vm_stat,
                   load_avg>>

\* line 253: no warning, no question
ResourcesNoWarning ==
    /\ RFrame
    /\ rpc = "decide"
    /\ warnings = <<>>
    /\ proceed' = "yes"
    /\ rpc' = "returned"
    /\ UNCHANGED <<compression_level, total_size, warnings, prompted, answer,
                   vm_stat, load_avg>>

NextResources ==
    \/ ResourcesCall
    \/ ResourcesMemory
    \/ ResourcesCpu
    \/ ResourcesPrompt
    \/ ResourcesNoWarning

----------------------------------------------------------------------------
(* check_disk_space *)

\* the output paths the method is called with: in an existing directory, a
\* bare file name, in a directory that is not there
DiskOutputPaths ==
    { <<SEP, "out", SEP, "o", DOT, "7z">>,
      <<"o", DOT, "7z">>,
      <<SEP, "gone", SEP, "o", DOT, "7z">> }

\* the directories whose volume is asked for its free space
DiskDirs == { <<SEP, "out">>, Cwd }

\* free megabytes; 12 and 24 are 1.2 and 2.4 times the estimate of 10
FreeValues == {11, 12, 23, 24, 1023, 1024}

\* estimate_archive_size: None, 0.0 for empty sources, or megabytes
Estimates == { <<>>, <<0>>, <<10>> }

\* what input() gives at a yes/no question; EndOfInput: it raises EOFError
EndOfInput == "EOF"

YesNoTyped == {"y", "Y", " Yes ", "n", "", EndOfInput}

\* str.strip().lower() on what the user may type
strip_lower(typed) ==
    CASE typed = " Yes " -> "yes"
      [] typed = "Y"     -> "y"
      [] OTHER           -> typed

DiskOutcome(result, asked, notice) ==
    [result |-> result, asked |-> asked, notice |-> notice]

\* lines 546-588; free: the free space of each directory
check_disk_space(path, estimate, free, typed) ==
    LET output_dir == IF dirname(path) # <<>> THEN dirname(path) ELSE Cwd
    IN  IF ~exists(output_dir, {})
        THEN DiskOutcome(TRUE, FALSE, "could_not_check")
        ELSE LET free_mb == free[output_dir] IN
             IF estimate # <<>> /\ estimate[1] # 0
             THEN IF free_mb * 10 < estimate[1] * 12
                  THEN IF typed = EndOfInput
                       THEN DiskOutcome(TRUE, TRUE, "could_not_check")
                       ELSE DiskOutcome(strip_lower(typed) \in {"y", "yes"},
                                        TRUE, "warning")
                  ELSE IF free_mb * 10 < estimate[1] * 12 * 2
                       THEN DiskOutcome(TRUE, FALSE, "tight")
                       ELSE DiskOutcome(TRUE, FALSE, "none")
             ELSE IF free_mb < 1024
                  THEN DiskOutcome(TRUE, FALSE, "low")
                  ELSE DiskOutcome(TRUE, FALSE, "none")

NotReturned == DiskOutcome(FALSE, FALSE, "not_returned")

InitDisk ==
    /\ dpc = "idle"
    /\ disk_output_path = <<>>
    /\ estimated_size_mb = <<>>
    /\ free_at = [d \in DiskDirs |-> 1024]
    /\ continue_anyway = "none"
    /\ disk_outcome = NotReturned

\* line 546: the call, on a machine with some free space
DiskCall ==
    /\ DFrame
    /\ dpc = "idle"
    /\ disk_output_path' \in DiskOutputPaths
    /\ estimated_size_mb' \in Estimates
    /\ free_at' \in [DiskDirs -> FreeValues]
    /\ dpc' = "called"
    /\ UNCHANGED <<continue_anyway, disk_outcome>>

\* lines 548-588: the body, with the answer should the question be asked
DiskCheck ==
    /\ DFrame
    /\ dpc = "called"
    /\ \E typed \in YesNoTyped :
         LET r == check_disk_space(disk_output_path, estimated_size_mb,
                                   free_at, typed)
         IN  /\ disk_outcome' = r
             /\ continue_anyway' = IF r.asked THEN typed ELSE "none"
    /\ dpc' = "returned"
    /\ UNCHANGED <<disk_output_path, estimated_size_mb, free_at>>

NextDisk ==
    \/ DiskCall
    \/ DiskCheck

----------------------------------------------------------------------------
(* create_archive: the source paths *)

\* what the user may enter as one path (after shlex.split), or put on one
\* line of a file list
RawFiles ==
    { <<"f1">>,
      <<SEP, "w", SEP, "f1">>,
      <<"my", BS, SP, "f2">>,
      <<"odd", BS, SP, "n">>,
      <<BS, SP, "lead">>,
      <<"gone">>,
      <<SEP, "System", SEP, "Library", SEP, "x">>,
      <<SEP, SEP, "System", SEP, "Library", SEP, "x">>,
      <<SEP, "w", SEP, "..", SEP, "usr", SEP, "bin", SEP, "ls">>,
      <<"..", SEP, "private", SEP, "p">> }

\* lines 396-410: the paths of one input line that name an existing entry
RECURSIVE ValidPaths(_)
ValidPaths(path_list) ==
    IF path_list = <<>> THEN <<>>
    ELSE LET forms == clean_macos_path(Head(path_list))
             rest  == ValidPaths(Tail(path_list))
         IN  IF exists(forms[1], {}) THEN <<forms[1]>> \o rest
             ELSE IF exists(forms[2], {}) THEN <<forms[2]>> \o rest
             ELSE rest

\* lines 355-361: the lines of a file list that name an existing entry,
\* taken in their unescaped form only
RECURSIVE ListedPaths(_)
ListedPaths(lines) ==
    IF lines = <<>> THEN <<>>
    ELSE LET clean_path == clean_macos_path(Head(lines))[2]
             rest       == ListedPaths(Tail(lines))
         IN  IF exists(clean_path, {}) THEN <<clean_path>> \o rest ELSE rest

\* line 539: the security check
DeniedByPrefix(abs_path) ==
    \/ StartsWith(abs_path, <<SEP, "System">>)
    \/ StartsWith(abs_path, <<SEP, "usr", SEP, "bin">>)
    \/ StartsWith(abs_path, <<SEP, "private">>)

\* lines 518-544
RECURSIVE validate_files_for_archiving(_)
validate_files_for_archiving(file_paths) ==
    IF file_paths = <<>> THEN <<>>
    ELSE LET file_path == Head(file_paths)
             forms     == clean_macos_path(file_path)
             rest      == validate_files_for_archiving(Tail(file_paths))
         IN  IF Strip(file_path, {SP}) = <<>> THEN rest
             ELSE IF exists(forms[1], {})
                  THEN IF DeniedByPrefix(abspath(forms[1])) THEN rest
                       ELSE <<abspath(forms[1])>> \o rest
             ELSE IF exists(forms[2], {})
                  THEN IF DeniedByPrefix(abspath(forms[2])) THEN rest
                       ELSE <<abspath(forms[2])>> \o rest
             ELSE rest

\* str.lower on the names and extensions met here
lower_ext(e) ==
    [k \in 1..Len(e) |->
        CASE e[k] = "TAR" -> "tar" [] e[k] = "7Z" -> "7z"
          [] e[k] = "JPG" -> "jpg" [] e[k] = "IMG_1" -> "img_1"
          [] OTHER -> e[k]]

\* line 851: the extension, lower case, without its dot
output_ext_of(path) == LStrip(lower_ext(splitext(path)[2]), {DOT})

\* the command with -y whatever the user chose
CreateCmd_AlwaysYes(path, level, split, overwrite, pass, sources) ==
    LET output_ext == output_ext_of(path)
    IN  << <<"7zz">>, <<"a">> >>
        \o (IF output_ext # <<"tar">> THEN << <<"-mx", level>> >> ELSE <<>>)
        \o (IF split # <<>> THEN << <<"-v">> \o split >> ELSE <<>>)
        \o << <<"-y">> >>
        \o (IF pass # <<>>
            THEN << <<"-p">> \o pass >>
                 \o (IF output_ext = <<"7z">> THEN << <<"-mhe=on">> >>
                     ELSE <<>>)
            ELSE <<>>)
        \o <<path>>
        \o sources

\* the command with header encryption for every format
CreateCmd_HeaderEncryptionForAll(path, level, split, overwrite, pass, sources) ==
    LET output_ext == output_ext_of(path)
    IN  << <<"7zz">>, <<"a">> >>
        \o (IF output_ext # <<"tar">> THEN << <<"-mx", level>> >> ELSE <<>>)
        \o (IF split # <<>> THEN << <<"-v">> \o split >> ELSE <<>>)
        \o (IF overwrite THEN << <<"-y">> >> ELSE <<>>)
        \o (IF pass # <<>>
            THEN << <<"-p">> \o pass >> \o << <<"-mhe=on">> >>
            ELSE <<>>)
        \o <<path>>
        \o sources

\* lines 955-980: the argument list of the archive creation
CreateCmd(path, level, split, overwrite, pass, sources) ==
    LET output_ext == output_ext_of(path)
    IN  << <<"7zz">>, <<"a">> >>
        \o (IF output_ext # <<"tar">> THEN << <<"-mx", level>> >> ELSE <<>>)
        \o (IF split # <<>> THEN << <<"-v">> \o split >> ELSE <<>>)
        \o (IF overwrite THEN << <<"-y">> >> ELSE <<>>)
        \o (IF pass # <<>>
            THEN << <<"-p">> \o pass >>
                 \o (IF output_ext = <<"7z">> THEN << <<"-mhe=on">> >>
                     ELSE <<>>)
            ELSE <<>>)
        \o <<path>>
        \o sources

\* the source arguments of a creation command: what follows the output path
CmdSources(cmd) == SubSeq(cmd, Len(cmd) - Len(validated_files) + 1, Len(cmd))

\* the paths of one input, each with the way it came
Tagged(how, paths) == [k \in 1..Len(paths) |-> <<how, paths[k]>>]

InitCreate ==
    /\ cpc = "paths"
    /\ all_files = <<>>
    /\ validated_files = <<>>
    /\ create_cmd = <<>>
    /\ output_path = <<>>
    /\ overwrite_existing = FALSE
    /\ password = <<>>
    /\ create_level = "5"
    /\ split_size = <<>>
    /\ tar_warned = FALSE
    /\ first_path = <<>>
    /\ exists_choice = "none"
    /\ candidates = <<>>
    /\ gates = <<>>

\* lines 337-343, 376-424: one line of paths is entered; "cancel" ends the
\* operation
CreateEnterPaths ==
    /\ CFrame
    /\ cpc = "paths"
    /\ \E path_list \in SeqsUpTo(RawFiles, MaxPaths - Len(candidates)),
          add_more \in {"y", "n"} :
         LET valid_paths == ValidPaths(path_list) IN
         IF path_list = <<>>
         THEN /\ cpc' = "returned"
              /\ UNCHANGED <<all_files, candidates>>
         ELSE /\ all_files' = all_files \o valid_paths
              /\ candidates' = candidates \o Tagged("typed", path_list)
              /\ cpc' = IF valid_paths # <<>> /\ add_more = "n"
                        THEN "validate" ELSE "paths"
    /\ UNCHANGED <<validated_files, create_cmd, plan_vars, gates>>

\* lines 345-374: the paths are read from a file list
CreateLoadFileList ==
    /\ CFrame
    /\ cpc = "paths"
    /\ \E lines \in SeqsUpTo(RawFiles, MaxPaths - Len(candidates)) :
         /\ all_files' = all_files \o ListedPaths(lines)
         /\ candidates' = candidates \o Tagged("listed", lines)
         /\ cpc' = IF all_files' # <<>> THEN "validate" ELSE "paths"
    /\ UNCHANGED <<validated_files, create_cmd, plan_vars, gates>>

\* lines 805-815
CreateValidate ==
    /\ CFrame
    /\ cpc = "validate"
    /\ validated_files' = validate_files_for_archiving(all_files)
    /\ cpc' = IF validated_files' = <<>> THEN "returned" ELSE "plan"
    /\ gates' = IF validated_files' = <<>> THEN gates
                ELSE Append(gates, "sources")
    /\ candidates' = <<>>
    /\ UNCHANGED <<all_files, create_cmd, plan_vars>>

\* what get_output_path may return: an archive that is there (twice), new
\* archives of the three formats, one whose extension is in upper case, and
\* one in a system directory
OutputPaths ==
    { <<SEP, "w", SEP, "a", DOT, "7z">>,
      <<SEP, "w", SEP, "a", DOT, "zip">>,
      <<SEP, "w", SEP, "o", DOT, "7z">>,
      <<SEP, "w", SEP, "o", DOT, "zip">>,
      <<SEP, "w", SEP, "o", DOT, "tar">>,
      <<SEP, "w", SEP, "o", DOT, "TAR">>,
      <<SEP, "System", SEP, "o", DOT, "7z">> }

\* line 846
OutputDenied(output_abs) ==
    \/ StartsWith(output_abs, <<SEP, "System">>)
    \/ StartsWith(output_abs, <<SEP, "usr", SEP, "bin">>)

\* lines 817-848: the output path, the question when it is there already,
\* and the check of the system directories
CreateOutputPath ==
    /\ CFrame
    /\ cpc = "plan"
    /\ \E first \in OutputPaths, choice \in {"1", "2", "3", "x"},
          second \in OutputPaths :
         LET asked     == exists(first, {})
             path      == IF asked /\ choice = "2" THEN second ELSE first
             cancelled == /\ asked
                          /\ \/ choice \in {"3", "x"}
                             \/ choice = "2" /\ exists(second, {})
         IN  /\ first_path' = first
             /\ exists_choice' = IF asked THEN choice ELSE "none"
             /\ output_path' = path
             /\ overwrite_existing' = (asked /\ choice = "1")
             /\ cpc' = IF cancelled \/ OutputDenied(abspath(path))
                       THEN "returned" ELSE "password"
             /\ gates' = IF cancelled \/ OutputDenied(abspath(path))
                         THEN gates ELSE Append(gates, "output")
    /\ UNCHANGED <<all_files, validated_files, create_cmd, password,
                   create_level, split_size, tar_warned, candidates>>

\* the password a TAR archive is given whatever the user would enter
PasswordFor_TarAsked(output_ext, entered) == entered

\* lines 854-859: no password for TAR, else what get_password returns
PasswordFor(output_ext, entered) ==
    IF output_ext = <<"tar">> THEN <<>> ELSE entered

\* lines 850-859
CreatePassword ==
    /\ CFrame
    /\ cpc = "password"
    /\ \E entered \in { <<>>, <<"secret">> } :
         password' = PasswordFor(output_ext_of(output_path), entered)
    /\ tar_warned' = (output_ext_of(output_path) = <<"tar">>)
    /\ cpc' = "level"
    /\ UNCHANGED <<all_files, validated_files, create_cmd, output_path,
                   overwrite_existing, create_level, split_size, first_path,
                   exists_choice, candidates, gates>>

\* lines 861-867: the level, the estimate and the disk space check
CreateLevel ==
    /\ CFrame
    /\ cpc = "level"
    /\ create_level' \in {"0", "5", "9"}
    /\ \E estimate \in Estimates,
          free \in { [d \in DiskDirs |-> mb] : mb \in {11, 1024} },
          typed \in YesNoTyped :
         LET go == check_disk_space(output_path, estimate, free,
                                    typed).result
         IN  /\ cpc' = IF go THEN "split" ELSE "returned"
             /\ gates' = IF go THEN Append(gates, "disk") ELSE gates
    /\ UNCHANGED <<all_files, validated_files, create_cmd, output_path,
                   overwrite_existing, password, split_size, tar_warned,
                   first_path, exists_choice, candidates>>

\* lines 869-912: above 10 GB the user may have the archive split; an
\* invalid choice, or an empty custom size, asks again
CreateSplit ==
    /\ CFrame
    /\ cpc = "split"
    /\ \E large \in BOOLEAN, choice \in {"", "1", "2", "3", "4", "x"},
          custom_size \in { <<>>, <<"500m">> } :
         IF ~large \/ choice \in {"", "1"}
         THEN split_size' = <<>> /\ cpc' = "resources"
         ELSE IF choice = "2"
         THEN split_size' = <<"4000m">> /\ cpc' = "resources"
         ELSE IF choice = "3"
         THEN split_size' = <<"2000m">> /\ cpc' = "resources"
         ELSE IF choice = "4" /\ custom_size # <<>>
         THEN split_size' = custom_size /\ cpc' = "resources"
         ELSE UNCHANGED <<split_size, cpc>>
    /\ UNCHANGED <<all_files, validated_files, create_cmd, output_path,
                   overwrite_existing, password, create_level, tar_warned,
                   first_path, exists_choice, candidates, gates>>

\* the last two gates with the resource check's answer left aside
GoAhead_ResourcesIgnored(resources_ok, confirm) == lower(confirm) = "y"

\* lines 946-953: the resource check returned True and the last question
\* was answered "y", in either case
GoAhead(resources_ok, confirm) == resources_ok /\ lower(confirm) = "y"

\* lines 946-986: the resource check, the last question, and the command
CreateRun ==
    /\ CFrame
    /\ cpc = "resources"
    /\ \E resources_ok \in BOOLEAN, confirm \in {"y", "Y", "n", ""} :
         /\ IF GoAhead(resources_ok, confirm)
            THEN /\ create_cmd' =
                        CreateCmd(output_path, create_level, split_size,
                                  overwrite_existing, password,
                                  validated_files)
                 /\ cpc' = "ran"
            ELSE /\ cpc' = "returned"
                 /\ UNCHANGED create_cmd
         /\ gates' = gates
                \o (IF resources_ok THEN <<"resources">> ELSE <<>>)
                \o (IF resources_ok /\ lower(confirm) = "y"
                    THEN <<"confirm">> ELSE <<>>)
    /\ UNCHANGED <<all_files, validated_files, plan_vars, candidates>>

NextCreate ==
    \/ CreateEnterPaths
    \/ CreateLoadFileList
    \/ CreateValidate
    \/ CreateOutputPath
    \/ CreatePassword
    \/ CreateLevel
    \/ CreateSplit
    \/ CreateRun

----------------------------------------------------------------------------
(* get_output_path, generate_smart_archive_name, and the start of         *)
(* create_archive that calls them (lines 817-848)                         *)

\* os.path.isdir
isdir(p, made) == p # <<>> /\ Entry(p, BaseDirs \cup made) \in (BaseDirs \cup made)

\* datetime.now().strftime("%Y-%m-%d")
Today == "2026-01-01"

\* the words the naming rules look for, and the names met here that hold
\* one of them inside a longer word
Within(kw, word) ==
    \/ word = kw
    \/ <<kw, word>> \in { <<"photo", "photos">>, <<"img", "img_1">>,
                          <<"doc", "docs">>, <<"code", "decoder">> }

\* any(kw in name.lower() ..) or name.lower().endswith(exts)
Mentions(name, kws, exts) ==
    LET low == lower_ext(name) IN
      \/ \E k \in 1..Len(low), kw \in kws : Within(kw, low[k])
      \/ \E e \in exts : EndsWith(low, <<DOT, e>>)

\* all(f.startswith(common_parent) for f in source_files)
AllStartWith(source_files, prefix) ==
    \A k \in 1..Len(source_files) : StartsWith(source_files[k], prefix)

\* lines 631-673
generate_smart_archive_name(source_files, made) ==
    IF Len(source_files) = 1
    THEN LET source    == source_files[1]
             base_name == basename(RStrip(source, {SEP}))
         IN  IF isdir(source, made) THEN base_name \o <<DOT, "7z">>
             ELSE splitext(base_name)[1] \o <<"_archive", DOT, "7z">>
    ELSE LET file_names ==
                 [k \in 1..Len(source_files) |->
                      basename(RStrip(source_files[k], {SEP}))]
             any(kws, exts) ==
                 \E k \in 1..Len(file_names) :
                     Mentions(file_names[k], kws, exts)
             common_parent == dirname(source_files[1])
             base_name ==
                 IF any({"photo", "img"}, {"jpg", "png", "gif", "heic"})
                 THEN <<"Photos">>
                 ELSE IF any({"doc"}, {"pdf", "txt", "docx", "pages"})
                 THEN <<"Documents">>
                 ELSE IF any({"video", "movie"}, {"mp4", "mov", "avi"})
                 THEN <<"Videos">>
                 ELSE IF any({"music", "audio"}, {"mp3", "m4a", "wav"})
                 THEN <<"Audio">>
                 ELSE IF any({"project", "src", "code"}, {})
                 THEN <<"Project">>
                 ELSE IF common_parent # <<>>
                         /\ AllStartWith(source_files, common_parent)
                 THEN IF basename(common_parent) # <<>>
                      THEN basename(common_parent) ELSE <<"Files">>
                 ELSE <<"Mixed_Files">>
         IN  base_name \o <<"_", Today, DOT, "7z">>

\* any(path.endswith(ext) for ext in ['.7z', '.zip', '.tar', '.gz'])
HasArchiveExtension(path) ==
    \E e \in {"7z", "zip", "tar", "gz"} : EndsWith(path, <<DOT, e>>)

\* lines 441-445: the directory of the suggestion
default_dir_of(prefs) ==
    IF (IF "remember_last_directory" \in DOMAIN prefs
        THEN prefs["remember_last_directory"] # "false" ELSE TRUE)
       /\ "last_output_directory" \in DOMAIN prefs
    THEN prefs["last_output_directory"]
    ELSE IF "default_output_directory" \in DOMAIN prefs
         THEN prefs["default_output_directory"] ELSE Desktop

\* lines 464-496: the path named by a non-empty answer; source_files <<>>
\* stands for None, whose len() raises TypeError
RequestedPath(path, filename_typed, source_files, made) ==
    IF isdir(path, made) \/ EndsWith(path, <<SEP>>)
    THEN LET base_dir == RStrip(path, {SEP}) IN
         IF source_files = <<>>
         THEN [raised |-> "TypeError", path |-> <<>>]
         ELSE IF Len(source_files) = 1
         THEN [raised |-> "none",
               path |-> join(base_dir,
                             splitext(basename(source_files[1]))[1]
                                 \o <<DOT, "7z">>)]
         ELSE LET default_filename ==
                      splitext(basename(source_files[1]))[1]
                          \o <<"_archive", DOT, "7z">>
                  stripped == Strip(filename_typed, {SP})
                  filename == IF stripped = <<>> THEN default_filename
                              ELSE stripped
              IN  [raised |-> "none",
                   path |-> join(base_dir,
                                 IF HasArchiveExtension(filename)
                                 THEN filename
                                 ELSE filename \o <<DOT, "7z">>)]
    ELSE [raised |-> "none",
          path |-> IF HasArchiveExtension(path) THEN path
                   ELSE path \o <<DOT, "7z">>]

\* lines 432-516.  typed, filename_typed: the answers to the two prompts;
\* mkdir_ok, save_ok: whether os.makedirs and save_preferences succeed.
\* The result: the error that left the method ("none"), the path returned,
\* the path asked for before any fallback, what became of the parent
\* directory, and the preferences, the preference file and the directories
\* as the call leaves them.
get_output_path(default_name, source_files, typed, filename_typed, prefs, file, made, mkdir_ok, save_ok) ==
    LET smart_name  == IF source_files # <<>>
                       THEN generate_smart_archive_name(source_files, made)
                       ELSE default_name
        default_dir == default_dir_of(prefs)
        default_full_path == join(default_dir, smart_name)
        answered    == Strip(typed, {SP})
        unescaped   == clean_macos_path(Strip(answered, {QT, "\""}))[2]
        asked       == RequestedPath(unescaped, filename_typed, source_files,
                                     made)
        output_dir  == dirname(asked.path)
        remembered  == output_dir # <<>> /\ exists(output_dir, made)
        new_prefs   == IF remembered
                       THEN [k \in DOMAIN prefs \cup {"last_output_directory"}
                               |-> IF k = "last_output_directory"
                                   THEN output_dir ELSE prefs[k]]
                       ELSE prefs
        new_file    == IF remembered /\ save_ok THEN FileOf(new_prefs)
                       ELSE file
        missing     == output_dir # <<>> /\ ~exists(output_dir, made)
    IN  IF answered = <<>>
        THEN [raised |-> "none", path |-> default_full_path,
              requested |-> default_full_path, parent |-> "untouched",
              preferences |-> prefs, file |-> file, made |-> made]
        ELSE IF asked.raised # "none"
        THEN [raised |-> asked.raised, path |-> <<>>, requested |-> <<>>,
              parent |-> "untouched",
              preferences |-> prefs, file |-> file, made |-> made]
        ELSE IF ~missing
        THEN [raised |-> "none", path |-> asked.path,
              requested |-> asked.path, parent |-> "untouched",
              preferences |-> new_prefs, file |-> new_file, made |-> made]
        ELSE IF mkdir_ok
        THEN [raised |-> "none", path |-> asked.path,
              requested |-> asked.path, parent |-> "created",
              preferences |-> new_prefs, file |-> new_file,
              made |-> makedirs(output_dir, made)]
        ELSE [raised |-> "none",
              path |-> join(default_dir, basename(asked.path)),
              requested |-> asked.path, parent |-> "failed",
              preferences |-> new_prefs, file |-> new_file, made |-> made]

\* the validated sources create_archive passes on
SourceLists ==
    { << <<SEP, "w", SEP, "f1">> >>,
      << <<SEP, "w", SEP, "d">> >>,
      << <<SEP, "w", SEP, "f1">>, <<SEP, "w", SEP, "a", DOT, "7z">> >>,
      << <<SEP, "w", SEP, "f1">>, <<SEP, "out", SEP, "old">> >>,
      << <<SEP, "w", SEP, "IMG_1", DOT, "JPG">>,
         <<SEP, "w", SEP, "notes", DOT, "pdf">> >>,
      << <<SEP, "w", SEP, "docs">>, <<SEP, "w", SEP, "movie", DOT, "mp4">> >>,
      << <<SEP, "w", SEP, "clip", DOT, "mov">>,
         <<SEP, "w", SEP, "song", DOT, "mp3">> >>,
      << <<SEP, "w", SEP, "music">>, <<SEP, "w", SEP, "src">> >>,
      << <<SEP, "w", SEP, "decoder">>, <<SEP, "w", SEP, "f1">> >> }

\* what the user may answer at "Path (or press Enter to use suggestion)"
TypedOutputs ==
    { <<>>,
      <<"o", DOT, "7z">>,
      <<SEP, "w", SEP, "a", DOT, "7z">>,
      <<SEP, "out", SEP, "o">>,
      <<SEP, "w", SEP, "new", SEP, "o", DOT, "zip">>,
      <<SEP, "out">>,
      <<SEP, "w", SEP, "fresh", SEP>>,
      <<SEP, "System", SEP, "o", DOT, "tar">> }

\* and at "Filename (or press Enter to use smart filename)"
TypedFilenames == { <<>>, <<"n">>, <<"n", DOT, "zip">> }

\* the preferences in memory when create_archive starts
OutputPreferences ==
    { [k \in DOMAIN default_preferences \ absent |->
          CASE k = "remember_last_directory" -> remember
            [] k = "last_output_directory" -> last
            [] k = "default_output_directory" -> dflt
            [] OTHER -> default_preferences[k]] :
        remember \in {"true", "false"},
        last \in {Desktop, <<SEP, "out">>},
        dflt \in {Desktop, <<SEP, "w", SEP, "d">>},
        absent \in {{}, {"last_output_directory"}} }

NoCall ==
    [raised |-> "none", path |-> <<>>, requested |-> <<>>,
     parent |-> "untouched"]

InitOutput ==
    /\ opc = "idle"
    /\ out_sources = <<>>
    /\ out_call = NoCall
    /\ out_made = {}
    /\ out_start = [preferences |-> default_preferences, file |-> Absent]
    /\ out_overwrite = FALSE
    /\ out_path = <<>>

\* create_archive has its validated sources (line 815)
OutputStart ==
    /\ opc = "idle"
    /\ out_sources' \in SourceLists
    /\ \E prefs \in OutputPreferences, saved \in BOOLEAN :
         /\ preferences' = prefs
         /\ cfg_file' = IF saved THEN FileOf(prefs) ELSE Absent
         /\ out_start' = [preferences |-> preferences', file |-> cfg_file']
    /\ opc' = "output"
    /\ UNCHANGED <<out_call, out_made, out_overwrite, out_path>>
    /\ OFrame

\* create_archive takes what a call of get_output_path left, and goes on
OutputReturn(r, onward) ==
    /\ out_call' = [raised |-> r.raised, path |-> r.path,
                    requested |-> r.requested, parent |-> r.parent]
    /\ preferences' = r.preferences
    /\ cfg_file' = r.file
    /\ out_made' = r.made
    /\ out_path' = r.path
    /\ opc' = IF r.raised # "none" THEN "crashed" ELSE onward

\* line 817
OutputFirst ==
    /\ opc = "output"
    /\ \E typed \in TypedOutputs, filename_typed \in TypedFilenames,
          mkdir_ok \in BOOLEAN, save_ok \in BOOLEAN :
         OutputReturn(get_output_path(<<"archive", DOT, "7z">>, out_sources,
                                      typed, filename_typed, preferences,
                                      cfg_file, out_made, mkdir_ok, save_ok),
                      "exists")
    /\ UNCHANGED <<out_sources, out_start, out_overwrite>>
    /\ OFrame

\* lines 819-842: the output is there already
OutputExists ==
    /\ opc = "exists"
    /\ exists(out_path, out_made)
    /\ \E choice \in {"1", "2", "3", "x"} :
         /\ opc' = CASE choice = "1" -> "security"
                     [] choice = "2" -> "output_again"
                     [] OTHER -> "returned"
         /\ out_overwrite' = (choice = "1")
    /\ UNCHANGED <<out_sources, out_call, out_made, out_start, out_path,
                   preferences, cfg_file>>
    /\ OFrame

\* line 820: it is not
OutputNew ==
    /\ opc = "exists"
    /\ ~exists(out_path, out_made)
    /\ opc' = "security"
    /\ UNCHANGED <<out_sources, out_call, out_made, out_start, out_path,
                   out_overwrite, preferences, cfg_file>>
    /\ OFrame

\* line 829: get_output_path() without the sources
OutputAgain ==
    /\ opc = "output_again"
    /\ \E typed \in TypedOutputs, filename_typed \in TypedFilenames,
          mkdir_ok \in BOOLEAN, save_ok \in BOOLEAN :
         OutputReturn(get_output_path(<<"archive", DOT, "7z">>, <<>>,
                                      typed, filename_typed, preferences,
                                      cfg_file, out_made, mkdir_ok, save_ok),
                      "still_exists")
    /\ UNCHANGED <<out_sources, out_start, out_overwrite>>
    /\ OFrame

\* lines 830-832
OutputStillExists ==
    /\ opc = "still_exists"
    /\ opc' = IF exists(out_path, out_made) THEN "returned" ELSE "security"
    /\ UNCHANGED <<out_sources, out_call, out_made, out_start, out_path,
                   out_overwrite, preferences, cfg_file>>
    /\ OFrame

\* lines 844-848
OutputSecurity ==
    /\ opc = "security"
    /\ opc' = IF OutputDenied(abspath(out_path)) THEN "returned"
              ELSE "gates"
    /\ UNCHANGED <<out_sources, out_call, out_made, out_start, out_path,
                   out_overwrite, preferences, cfg_file>>
    /\ OFrame

\* lines 864-867, 946-953: the disk space check, the resource check and the
\* last question each end the operation or let it go on
OutputGates ==
    /\ opc = "gates"
    /\ \E disk_ok \in BOOLEAN, resources_ok \in BOOLEAN,
          confirm \in {"y", "n"} :
         opc' = IF disk_ok /\ resources_ok /\ confirm = "y" THEN "ran"
                ELSE "returned"
    /\ UNCHANGED <<out_sources, out_call, out_made, out_start, out_path,
                   out_overwrite, preferences, cfg_file>>
    /\ OFrame

NextOutput ==
    \/ OutputStart
    \/ OutputFirst
    \/ OutputExists
    \/ OutputNew
    \/ OutputAgain
    \/ OutputStillExists
    \/ OutputSecurity
    \/ OutputGates

----------------------------------------------------------------------------
(* The preference menus other than compression (directory_preferences,    *)
(* auto_open_preferences, exclusion_preferences, clear_specific_setting)  *)
(* and the directory get_output_path remembers                            *)

\* os.path.expanduser
expanduser(p) ==
    IF p # <<>> /\ p[1] = "~" THEN <<SEP, "home">> \o Tail(p) ELSE p

\* dict assignment, and del
SetKey(d, key, value) ==
    [k \in DOMAIN d \cup {key} |-> IF k = key THEN value ELSE d[k]]

DelKey(d, key) == [k \in DOMAIN d \ {key} |-> d[k]]

\* list.pop(i), i from 0
Pop(list, i) == SubSeq(list, 1, i) \o SubSeq(list, i + 2, Len(list))

\* the most exclusion patterns the menu is given to hold
MaxPatterns == 4

\* lines 1746-1788
DirectoryPreferences ==
    /\ PFrame
    /\ ppc = "menu"
    /\ \E choice \in {"1", "2", "3", "4", "5", "x"},
          new_dir \in { <<>>, <<SEP, "out">>, <<SEP, "w", SEP, "gone">> } :
         CASE choice = "1" /\ new_dir # <<>> /\ isdir(expanduser(new_dir), {}) ->
                /\ preferences' = SetKey(preferences,
                                         "default_output_directory",
                                         expanduser(new_dir))
                /\ ppc' = "save_open"
           [] choice = "2" ->
                /\ preferences' =
                       SetKey(preferences, "remember_last_directory",
                              IF preferences["remember_last_directory"]
                                     = "false"
                              THEN "true" ELSE "false")
                /\ ppc' = "save_open"
           [] choice = "3" ->
                /\ preferences' = SetKey(preferences,
                                         "default_output_directory", Desktop)
                /\ ppc' = "save_open"
           [] choice = "4" /\ "last_output_directory" \in DOMAIN preferences ->
                /\ preferences' = DelKey(preferences, "last_output_directory")
                /\ ppc' = "save_open"
           [] OTHER -> UNCHANGED <<preferences, ppc>>
    /\ UNCHANGED <<cfg_file, pending, file_before_save, crash_point,
                   startup_file>>

\* lines 1790-1812
AutoOpenPreferences ==
    /\ PFrame
    /\ ppc = "menu"
    /\ \E choice \in {"1", "2", "3", "x"} :
         IF choice \in {"1", "2"}
         THEN /\ preferences' =
                     SetKey(preferences, "auto_open_after_extract",
                            IF choice = "1" THEN "true" ELSE "false")
              /\ ppc' = "save_open"
         ELSE UNCHANGED <<preferences, ppc>>
    /\ UNCHANGED <<cfg_file, pending, file_before_save, crash_point,
                   startup_file>>

\* lines 1814-1856; number: what int() makes of the answer to "Remove
\* which pattern", <<>> when it raises ValueError
ExclusionPreferences ==
    /\ PFrame
    /\ ppc = "menu"
    /\ \E choice \in {"1", "2", "3", "4", "x"},
          pattern \in {"", "*.tmp", ".DS_Store"},
          number \in { <<>>, <<4>>, <<9>> } :
         LET patterns == preferences["exclude_patterns"] IN
         CASE choice = "1" /\ pattern # ""
                           /\ \A k \in 1..Len(patterns) : patterns[k] # pattern
                           /\ Len(patterns) < MaxPatterns ->
                /\ preferences' = SetKey(preferences, "exclude_patterns",
                                         Append(patterns, pattern))
                /\ ppc' = "save_open"
           [] choice = "2" /\ patterns # <<>> /\ number # <<>>
                           /\ 0 <= number[1] - 1
                           /\ number[1] - 1 < Len(patterns) ->
                /\ preferences' = SetKey(preferences, "exclude_patterns",
                                         Pop(patterns, number[1] - 1))
                /\ ppc' = "save_open"
           [] choice = "3" ->
                /\ preferences' = SetKey(preferences, "exclude_patterns",
                                         DefaultPatterns)
                /\ ppc' = "save_open"
           [] OTHER -> UNCHANGED <<preferences, ppc>>
    /\ UNCHANGED <<cfg_file, pending, file_before_save, crash_point,
                   startup_file>>

\* lines 1858-1903
ClearSpecificSetting ==
    /\ PFrame
    /\ ppc = "menu"
    /\ \E choice \in {"1", "2", "3", "4", "5", "6", "x"} :
         CASE choice = "1" ->
                /\ preferences' = SetKey(preferences, "compression_preset",
                                         "ask")
                /\ ppc' = "save_open"
           [] choice = "2" ->
                /\ preferences' = SetKey(preferences,
                                         "default_output_directory", Desktop)
                /\ ppc' = "save_open"
           [] choice = "3" /\ "last_output_directory" \in DOMAIN preferences ->
                /\ preferences' = DelKey(preferences, "last_output_directory")
                /\ ppc' = "save_open"
           [] choice = "4" ->
                /\ preferences' = SetKey(preferences,
                                         "auto_open_after_extract", "false")
                /\ ppc' = "save_open"
           [] choice = "5" ->
                /\ preferences' = SetKey(preferences, "exclude_patterns",
                                         DefaultPatterns)
                /\ ppc' = "save_open"
           [] OTHER -> UNCHANGED <<preferences, ppc>>
    /\ UNCHANGED <<cfg_file, pending, file_before_save, crash_point,
                   startup_file>>

\* get_output_path, lines 498-502: the directory of the output given is
\* there
RememberOutputDirectory ==
    /\ PFrame
    /\ ppc = "menu"
    /\ \E output_dir \in { <<SEP, "out">> } :
         preferences' = SetKey(preferences, "last_output_directory",
                               output_dir)
    /\ ppc' = "save_open"
    /\ UNCHANGED <<cfg_file, pending, file_before_save, crash_point,
                   startup_file>>

\* the program is started without a preference file, or on the one a save
\* of the defaults left
InitSettings ==
    /\ ppc = "start"
    /\ cfg_file \in {Absent, FileOf(default_preferences)}
    /\ preferences = default_preferences
    /\ pending = <<>>
    /\ file_before_save = Absent
    /\ crash_point = "none"
    /\ startup_file = Absent

NextSettings ==
    \/ PrefsStartup
    \/ DirectoryPreferences
    \/ AutoOpenPreferences
    \/ ExclusionPreferences
    \/ ClearSpecificSetting
    \/ RememberOutputDirectory
    \/ ResetPreferences
    \/ SaveOpen
    \/ SaveWrite
    \/ SaveClose

----------------------------------------------------------------------------
(* get_compression_level *)

\* the saved preferences the method may find: every preset, and the custom
\* levels compression_preferences stores, or one the file was given by hand
LevelPresets == {"fast", "balanced", "maximum", "custom", "ask"}

SavedCustomLevels == {"0", "5", "8", "9", "12"}

LevelPreferences ==
    { [default_preferences EXCEPT !["compression_preset"] = p,
                                  !["custom_compression_level"] = l] :
          p \in LevelPresets, l \in SavedCustomLevels }

\* the level 9 question taking everything but "n" for a yes
confirm_level_9_DefaultYes(typed) == IF typed = "n" THEN "5" ELSE "9"

\* lines 751-764: _confirm_level_9, on the answer in lower case
confirm_level_9(typed) == IF typed # "y" THEN "5" ELSE "9"

\* lines 777-788: int(level) succeeds and 0 <= level <= 9
ValidCustomLevels == {"0", "7", "9"}

InitLevel ==
    /\ lpc = "idle"
    /\ level_prompts = <<>>
    /\ menu_choice = "none"
    /\ custom_typed = "none"
    /\ confirm_typed = "none"
    /\ level_returned = "none"

\* lines 709-726: a saved preset is used as it is, "maximum" and a custom
\* level of 9 after the level 9 question; anything else shows the menu
LevelPreset ==
    /\ LFrame
    /\ lpc = "idle"
    /\ LET preset == preferences["compression_preset"]
           level  == preferences["custom_compression_level"]
       IN  CASE preset = "fast" ->
                    level_returned' = "1" /\ lpc' = "returned"
             [] preset = "balanced" ->
                    level_returned' = "5" /\ lpc' = "returned"
             [] preset = "maximum" ->
                    lpc' = "confirm9" /\ UNCHANGED level_returned
             [] preset = "custom" ->
                    IF level = "9"
                    THEN lpc' = "confirm9" /\ UNCHANGED level_returned
                    ELSE level_returned' = level /\ lpc' = "returned"
             [] OTHER -> lpc' = "menu" /\ UNCHANGED level_returned
    /\ UNCHANGED <<level_prompts, menu_choice, custom_typed, confirm_typed>>

\* lines 737-749: the menu, asked again after an invalid choice
LevelMenu ==
    /\ LFrame
    /\ lpc = "menu"
    /\ level_prompts' = Append(level_prompts, "menu")
    /\ \E choice \in {"", "1", "2", "3", "4", "x", EndOfInput} :
         /\ menu_choice' = choice
         /\ CASE choice \in {"", "2"} ->
                    level_returned' = "5" /\ lpc' = "returned"
              [] choice = "1" ->
                    level_returned' = "1" /\ lpc' = "returned"
              [] choice = "3" ->
                    lpc' = "confirm9" /\ UNCHANGED level_returned
              [] choice = "4" ->
                    lpc' = "custom" /\ UNCHANGED level_returned
              [] choice = EndOfInput ->
                    lpc' = "raised" /\ UNCHANGED level_returned
              [] OTHER ->
                    /\ Len(level_prompts) < MaxAsked
                    /\ lpc' = "menu"
                    /\ UNCHANGED level_returned
    /\ UNCHANGED <<custom_typed, confirm_typed>>

\* lines 766-788: _get_custom_level, asked again after an invalid level
LevelCustom ==
    /\ LFrame
    /\ lpc = "custom"
    /\ level_prompts' = Append(level_prompts, "custom")
    /\ \E level \in ValidCustomLevels \cup {"10", "abc", EndOfInput} :
         /\ custom_typed' = level
         /\ IF level = EndOfInput
            THEN lpc' = "raised" /\ UNCHANGED level_returned
            ELSE IF level \notin ValidCustomLevels
            THEN /\ Len(level_prompts) < MaxAsked
                 /\ lpc' = "custom"
                 /\ UNCHANGED level_returned
            ELSE IF level = "9"
            THEN lpc' = "confirm9" /\ UNCHANGED level_returned
            ELSE level_returned' = level /\ lpc' = "returned"
    /\ UNCHANGED <<menu_choice, confirm_typed>>

\* lines 751-764: the level 9 question
LevelConfirm9 ==
    /\ LFrame
    /\ lpc = "confirm9"
    /\ level_prompts' = Append(level_prompts, "confirm9")
    /\ \E typed \in {"y", "Y", "yes", "n", "", EndOfInput} :
         /\ confirm_typed' = typed
         /\ IF typed = EndOfInput
            THEN lpc' = "raised" /\ UNCHANGED level_returned
            ELSE /\ level_returned' = confirm_level_9(lower(typed))
                 /\ lpc' = "returned"
    /\ UNCHANGED <<menu_choice, custom_typed>>

NextLevel ==
    \/ LevelPreset
    \/ LevelMenu
    \/ LevelCustom
    \/ LevelConfirm9

----------------------------------------------------------------------------
(* The process, its signal handlers and the keep-awake helper            *)
(* (__init__, setup_signal_handlers, stop_caffeinate, cleanup_and_exit,   *)
(* run, main_menu)                                                        *)

\* the most signals delivered to one process
MaxSignals == 2

Signals == {"SIGINT", "SIGTERM"}

\* __init__, statement by statement, then run()
Construction ==
    <<"load_preferences", "locate_7zip", "setup_resource_limits",
      "install_SIGINT", "install_SIGTERM", "init_caffeinate", "check_7zip">>

Operations == {"create", "extract"}

\* the stretches of an operation that differ in the except clause around
\* them
Phases(op) ==
    IF op = "create"
    THEN <<"prompts", "disk", "sizing", "probe_memory", "probe_cpu",
           "confirm", "archiver", "completion">>
    ELSE <<"prompts", "confirm", "archiver", "summary">>

\* the innermost except clause around a position of the main thread:
\* "bare" (except:), "Exception" (except Exception) or "none".  The
\* except KeyboardInterrupt of main_menu catches neither SystemExit nor
\* AttributeError.
Enclosing(op, at) ==
    CASE at = "check_7zip" -> "Exception"
      [] op = "create" /\ at \in {"sizing", "probe_cpu"} -> "bare"
      [] op = "create" /\ at \in {"disk", "probe_memory"} -> "Exception"
      [] at = "archiver" -> "Exception"
      [] OTHER -> "none"

\* where the main thread goes on after the except clause has run
AfterExcept(op, at) ==
    CASE at = "check_7zip" -> {"exit1"}
      [] at = "sizing" -> {"sizing", "probe_memory"}
      [] at = "disk" -> {"sizing"}
      [] at = "probe_memory" -> {"probe_cpu"}
      [] at = "probe_cpu" -> {"confirm"}
      [] at = "archiver" /\ op = "create" -> {"pause"}
      [] at = "archiver" /\ op = "extract" -> {"summary"}
      [] OTHER -> {at}

\* what an exception of the given kind, raised in the main thread at the
\* position, is caught by
CaughtBy(kind, op, at) ==
    CASE Enclosing(op, at) = "bare" -> TRUE
      [] Enclosing(op, at) = "Exception" -> kind # "SystemExit"
      [] OTHER -> FALSE

\* self.caffeinate_process: "unset" before line 69 has run, "None", or
\* "running" (a Popen object)
HelperStates == {"unset", "None", "running"}

\* stop_caffeinate; ends: how terminate() and wait(timeout=5) went
stop_caffeinate(process, ends) ==
    CASE process = "unset" ->
           [process |-> process, raised |-> "AttributeError",
            reported |-> FALSE]
      [] process = "None" ->
           [process |-> process, raised |-> "none", reported |-> FALSE]
      [] process = "running" /\ ends = "ok" ->
           [process |-> "None", raised |-> "none", reported |-> FALSE]
      [] OTHER ->
           [process |-> process, raised |-> "none", reported |-> TRUE]

InitSignal ==
    /\ mpc = "load_preferences"
    /\ operation = "none"
    /\ handlers = {}
    /\ caffeinate_process = "unset"
    /\ hpc = "idle"
    /\ exit_status = "running"
    /\ signals = 0
    /\ sleep_prompted = FALSE
    /\ goodbyes = 0

Alive == exit_status = "running" /\ hpc = "idle"

\* one statement of __init__ or of run()
Construct ==
    /\ Alive
    /\ \E i \in 1..Len(Construction) :
         /\ mpc = Construction[i]
         /\ mpc' = IF i < Len(Construction) THEN Construction[i + 1]
                   ELSE "menu"
         /\ handlers' =
              CASE mpc = "install_SIGINT" -> handlers \cup {"SIGINT"}
                [] mpc = "install_SIGTERM" -> handlers \cup {"SIGTERM"}
                [] OTHER -> handlers
         /\ caffeinate_process' =
              IF mpc = "init_caffeinate" THEN "None" ELSE caffeinate_process
    /\ UNCHANGED <<operation, hpc, exit_status, signals, sleep_prompted,
                   goodbyes>>
    /\ SFrame

\* run(): check_7zip returned False
ArchiverMissing ==
    /\ Alive
    /\ mpc = "check_7zip"
    /\ exit_status' = "exit1"
    /\ UNCHANGED <<mpc, operation, handlers, caffeinate_process, hpc,
                   signals, sleep_prompted, goodbyes>>
    /\ SFrame

\* main_menu: choice 1 or 2
StartOperation ==
    /\ Alive
    /\ mpc = "menu"
    /\ \E op \in Operations : operation' = op
    /\ mpc' = "prompts"
    /\ sleep_prompted' = FALSE
    /\ UNCHANGED <<handlers, caffeinate_process, hpc, exit_status, signals,
                   goodbyes>>
    /\ SFrame

\* the operation goes on to its next stretch, or returns early (a gate
\* declined or failed)
Advance ==
    /\ Alive
    /\ operation \in Operations
    /\ \E i \in 1..Len(Phases(operation)) :
         /\ mpc = Phases(operation)[i]
         /\ \/ mpc' = IF i < Len(Phases(operation))
                      THEN Phases(operation)[i + 1] ELSE "pause"
            \/ /\ mpc \notin {"sizing", "probe_memory", "probe_cpu"}
               /\ mpc' = "pause"
    /\ UNCHANGED <<operation, handlers, caffeinate_process, hpc,
                   exit_status, signals, sleep_prompted, goodbyes>>
    /\ SFrame

\* main_menu: "Press Enter to continue..."
BackToMenu ==
    /\ Alive
    /\ mpc = "pause"
    /\ mpc' = "menu"
    /\ operation' = "none"
    /\ UNCHANGED <<handlers, caffeinate_process, hpc, exit_status, signals,
                   sleep_prompted, goodbyes>>
    /\ SFrame

\* main_menu: choice 6
Quit ==
    /\ Alive
    /\ mpc = "menu"
    /\ exit_status' = "exit0"
    /\ UNCHANGED <<mpc, operation, handlers, caffeinate_process, hpc,
                   signals, sleep_prompted, goodbyes>>
    /\ SFrame

\* a signal arrives between two statements of the main thread
Deliver ==
    /\ Alive
    /\ signals < MaxSignals
    /\ signals' = signals + 1
    /\ \E sig \in Signals :
         IF sig \in handlers
         THEN /\ hpc' = "cleanup_and_exit"
              /\ UNCHANGED exit_status
         ELSE \* the default disposition
              /\ hpc' = hpc
              /\ exit_status' = IF sig = "SIGTERM" THEN "killed"
                                ELSE "KeyboardInterrupt"
    /\ UNCHANGED <<mpc, operation, handlers, caffeinate_process,
                   sleep_prompted, goodbyes>>
    /\ SFrame

\* an exception raised by the handler surfaces in the main thread at the
\* statement the signal interrupted
Surfaces(kind, uncaught) ==
    IF CaughtBy(kind, operation, mpc)
    THEN /\ mpc' \in AfterExcept(operation, mpc)
         /\ IF mpc' = "exit1" THEN exit_status' = "exit1"
            ELSE UNCHANGED exit_status
    ELSE /\ exit_status' = uncaught
         /\ UNCHANGED mpc

\* cleanup_and_exit, line 176
HandlerStop ==
    /\ exit_status = "running"
    /\ hpc = "cleanup_and_exit"
    /\ \E ends \in {"ok", "raises"} :
         LET r == stop_caffeinate(caffeinate_process, ends) IN
           /\ caffeinate_process' = r.process
           /\ IF r.raised = "none"
              THEN /\ hpc' = "sys_exit"
                   /\ UNCHANGED <<mpc, exit_status>>
              ELSE /\ hpc' = "idle"
                   /\ Surfaces(r.raised, r.raised)
    /\ UNCHANGED <<operation, handlers, signals, sleep_prompted, goodbyes>>
    /\ SFrame

\* cleanup_and_exit, lines 177-178
HandlerExit ==
    /\ exit_status = "running"
    /\ hpc = "sys_exit"
    /\ hpc' = "idle"
    /\ goodbyes' = goodbyes + 1
    /\ Surfaces("SystemExit", "exit0")
    /\ UNCHANGED <<operation, handlers, caffeinate_process, signals,
                   sleep_prompted>>
    /\ SFrame

NextSignal ==
    \/ Construct
    \/ ArchiverMissing
    \/ StartOperation
    \/ Advance
    \/ BackToMenu
    \/ Quit
    \/ Deliver
    \/ HandlerStop
    \/ HandlerExit

----------------------------------------------------------------------------
(* Specifications *)

\* Each specification starts its own operation and leaves the others where
\* they are before they start.
IdlePrefs ==
    /\ ppc = "menu"
    /\ cfg_file = Absent
    /\ preferences = default_preferences
    /\ pending = <<>>
    /\ file_before_save = Absent
    /\ crash_point = "none"
    /\ startup_file = Absent

\* the operations no specification below starts on its own
IdleOthers == InitDisk /\ InitLevel /\ InitSignal /\ InitOutput

InitSpecExtract ==
    InitExtract /\ IdlePrefs /\ InitResources /\ InitCreate /\ IdleOthers

InitSpecPrefs ==
    InitPrefs /\ InitExtract /\ InitResources /\ InitCreate /\ IdleOthers

InitSpecResources ==
    InitResources /\ InitExtract /\ IdlePrefs /\ InitCreate /\ IdleOthers

InitSpecCreate ==
    InitCreate /\ InitExtract /\ IdlePrefs /\ InitResources /\ IdleOthers

InitSpecDisk ==
    /\ InitDisk /\ InitLevel /\ InitSignal /\ InitOutput
    /\ InitExtract /\ IdlePrefs /\ InitResources /\ InitCreate

\* get_compression_level is called with some saved preferences in memory
InitSpecLevel ==
    /\ InitLevel /\ InitDisk /\ InitSignal /\ InitOutput
    /\ InitExtract /\ InitResources /\ InitCreate
    /\ ppc = "menu"
    /\ cfg_file = Absent
    /\ preferences \in LevelPreferences
    /\ pending = <<>>
    /\ file_before_save = Absent
    /\ crash_point = "none"
    /\ startup_file = Absent

\* the process from its construction on
InitSpecSignal ==
    /\ InitSignal /\ InitDisk /\ InitLevel /\ InitOutput
    /\ InitExtract /\ IdlePrefs /\ InitResources /\ InitCreate

\* create_archive from its validated sources to the archiver
InitSpecOutput ==
    /\ InitOutput /\ InitDisk /\ InitLevel /\ InitSignal
    /\ InitExtract /\ IdlePrefs /\ InitResources /\ InitCreate

\* the preference menus from the start of the program
InitSpecSettings ==
    InitSettings /\ InitExtract /\ InitResources /\ InitCreate /\ IdleOthers

SpecExtract == InitSpecExtract /\ [][NextExtract]_vars

SpecPrefs == InitSpecPrefs /\ [][NextPrefs]_vars

SpecResources == InitSpecResources /\ [][NextResources]_vars

SpecCreate == InitSpecCreate /\ [][NextCreate]_vars

SpecDisk == InitSpecDisk /\ [][NextDisk]_vars

SpecLevel == InitSpecLevel /\ [][NextLevel]_vars

SpecSignal == InitSpecSignal /\ [][NextSignal]_vars

SpecOutput == InitSpecOutput /\ [][NextOutput]_vars

SpecSettings == InitSpecSettings /\ [][NextSettings]_vars

----------------------------------------------------------------------------
(* Properties of extract_archive *)

NJobs == Len(archive_paths)

\* the names of the jobs whose pass did not end in exit code 0
RECURSIVE FailedNames(_)
FailedNames(k) ==
    IF k = 0 THEN <<>>
    ELSE IF outcomes[k] = "exit0" THEN FailedNames(k - 1)
    ELSE Append(FailedNames(k - 1), basename(archive_paths[k]))

\* C1: every job of an extraction batch is attempted exactly once, in input
\* order, whatever the earlier jobs met (exit 0, nonzero exit, an exception
\* while launching, a failure to create the job's subdirectory): no failure
\* stops the batch and no job is tried again.
C1_EveryJobAttemptedOnceInOrder ==
    /\ Len(attempted) = Len(outcomes)
    /\ \A k \in 1..Len(attempted) : attempted[k] = k
    /\ epc = "loop" => Len(attempted) = idx - 1 /\ idx <= NJobs + 1
    /\ epc = "completed" => Len(attempted) = NJobs

\* a batch of three whose first two jobs failed (subdirectory, then launch)
\* and whose third job still ran
C1_Witness ==
    /\ epc = "completed"
    /\ outcomes = <<"mkdir_failed", "launch_exception", "exit0">>
    /\ attempted = <<1, 2, 3>>

\* C2: when a batch of N archives completes, every job is counted once, as
\* succeeded or in the failed list with its reason, and the summary is
\* AllSucceeded iff succeeded = N, AllFailed iff succeeded = 0 and
\* PartialSuccess otherwise; three archives of which only the second exits
\* nonzero give PartialSuccess, 2 succeeded, and a failed list of job 2 alone.
C2_AggregateCountsEveryJob ==
    epc = "completed" =>
        /\ success_count + Len(failed_archives) = NJobs
        /\ [k \in 1..Len(failed_archives) |-> failed_archives[k][1]]
               = FailedNames(NJobs)
        /\ \A k \in 1..Len(failed_archives) :
               failed_archives[k][2] \in {"error code 2", "exception"}
        /\ aggregate \in {"AllSucceeded", "PartialSuccess", "AllFailed"}
        /\ aggregate = "AllSucceeded" <=> success_count = NJobs
        /\ aggregate = "AllFailed" <=> success_count = 0
        /\ outcomes = <<"exit0", "exit_nonzero", "exit0">> =>
               /\ aggregate = "PartialSuccess"
               /\ success_count = 2
               /\ failed_archives =
                      << <<basename(archive_paths[2]), "error code 2">> >>

C2_Witness ==
    /\ epc = "completed"
    /\ outcomes = <<"exit0", "exit_nonzero", "exit0">>
    /\ aggregate = "PartialSuccess"

PolicyFlags == { <<"-aoa">>, <<"-aos">>, <<"-ao">> }

ArgsOf(cmd) == { cmd[k] : k \in 1..Len(cmd) }

\* the destination held entries before the operation made any directory
DestHeldEntries == has_entries(extract_to, {})

\* C8: when the destination already holds entries the conflict policy is
\* asked for once per batch, before any job runs, and every job's command
\* carries the one switch of that policy (skip existing -aos, overwrite all
\* -aoa, ask per file -ao); when the destination is empty no job's command
\* carries any of the three switches.
C8_OnePolicyForEveryJob ==
    /\ policy_prompts <= 1
    /\ epc \in {"loop", "completed"} =>
           policy_prompts = (IF DestHeldEntries THEN 1 ELSE 0)
    /\ \A k \in 1..Len(cmds) :
           ArgsOf(cmds[k]) \cap PolicyFlags =
               IF ~DestHeldEntries THEN {}
               ELSE IF resume_choice = "2" THEN { <<"-aoa">> }
               ELSE IF resume_choice = "3" THEN { <<"-ao">> }
               ELSE { <<"-aos">> }

C8_Witness ==
    /\ epc = "completed"
    /\ DestHeldEntries
    /\ resume_choice = "2"
    /\ Len(cmds) = 3

\* C9: under the ask-per-file policy no job's command pre-answers the
\* archiver's queries: it carries neither -y nor -aoa nor -aos.
C9_AskPerFileLeavesQueriesOpen ==
    resume_choice = "3" =>
        \A k \in 1..Len(cmds) :
            ArgsOf(cmds[k]) \cap { <<"-y">>, <<"-aoa">>, <<"-aos">> } = {}

\* C10: in separate mode on a batch of several archives, two distinct
\* archives go to two distinct subdirectories of the destination, and none
\* goes to the destination itself.
C10_SeparateDirectoriesDistinct ==
    (extraction_mode = "separate" /\ NJobs > 1) =>
        \A j, k \in 1..Len(cmds) :
            /\ cmds[k][4] # <<"-o">> \o extract_to
            /\ cmds[j][3] # cmds[k][3] => cmds[j][4] # cmds[k][4]

----------------------------------------------------------------------------
(* Properties of the preference store *)

\* C4: a crash at any point of save_preferences leaves the preference file
\* holding the complete previous valid record or the complete new record,
\* never an empty, truncated or unparsable file.
C4_CrashDuringSaveKeepsARecord ==
    (ppc = "crashed" /\ crash_point = "save_write"
     /\ ValidRecord(file_before_save)) =>
        \/ cfg_file = file_before_save
        \/ cfg_file = FileOf(preferences)

\* a file that is there and holds no record
Malformed(f) == f.kind # "absent" /\ ~ValidRecord(f)

\* C5: whatever malformed content the preference file holds (not JSON, or
\* JSON that is no object), load_preferences returns exactly the defaults
\* and the process goes on; no error of loading, saving or resetting the
\* preferences ends the process.
C5_MalformedFileGivesDefaults ==
    /\ ppc # "dead"
    /\ (ppc \notin {"start", "dead"} /\ Malformed(startup_file)) =>
           load_preferences(startup_file).prefs = default_preferences

\* the keys a record holds, and the value it holds for one of them (the last
\* one written, should a key be there twice)
PersistedKeys(f) == { f.items[i][1] : i \in 1..Len(f.items) }

PersistedValue(f, k) ==
    LET last == CHOOSE i \in 1..Len(f.items) :
                    /\ f.items[i][1] = k
                    /\ \A j \in (i + 1)..Len(f.items) : f.items[j][1] # k
    IN  f.items[last][2]

FastOverDefaults ==
    [default_preferences EXCEPT !["compression_preset"] = "fast"]

\* C11: load_preferences gives, key by key, the persisted value where the
\* persisted record has the key and the hard-coded default where it has not;
\* reset_preferences leaves exactly the defaults in memory and for the next
\* load; a completed save is read back as the record in memory, so that
\* setting compression_preset to "fast" changes that key alone and the key
\* is "fast", the others unchanged, after saving and loading again.
C11_LoadMergesRecordOverDefaults ==
    [][ /\ (ppc = "start" /\ ppc' = "menu"
            /\ (cfg_file = Absent \/ ValidRecord(cfg_file))) =>
               /\ DOMAIN preferences' =
                      DOMAIN default_preferences \cup PersistedKeys(cfg_file)
               /\ \A k \in DOMAIN preferences' :
                      preferences'[k] =
                          IF k \in PersistedKeys(cfg_file)
                          THEN PersistedValue(cfg_file, k)
                          ELSE default_preferences[k]
        /\ (ResetPreferences /\ ppc' = "save_open") =>
               /\ preferences' = default_preferences
               /\ load_preferences(cfg_file').prefs = default_preferences
        /\ (ppc = "save_write" /\ ppc' = "menu") =>
               /\ ValidRecord(cfg_file')
               /\ load_preferences(cfg_file').prefs = preferences'
        /\ (CompressionPreferences
            /\ preferences'["compression_preset"] = "fast"
            /\ ppc' = "save_open") =>
               \A k \in DOMAIN preferences' \ {"compression_preset"} :
                   preferences'[k] = preferences[k]
        /\ (ppc = "start" /\ ppc' = "menu"
            /\ cfg_file = FileOf(FastOverDefaults)) =>
               preferences' = FastOverDefaults
      ]_vars

\* the program was started on the file a save of "fast" over the defaults
\* left, and holds "fast" and the defaults of the other keys
C11_Witness ==
    /\ ppc = "menu"
    /\ startup_file = FileOf(FastOverDefaults)
    /\ preferences = FastOverDefaults

----------------------------------------------------------------------------
(* Properties of check_system_resources_before_operation *)

\* C3: at a compression level of 8 or more the method never returns
\* "proceed" without the user having been asked and having answered yes,
\* also when no memory or CPU warning fired and whatever the byte count.
C3_HighLevelAlwaysConfirmed ==
    (rpc = "returned" /\ compression_level >= 8 /\ proceed = "yes") =>
        prompted >= 1 /\ answer \in {"y", "yes"}

\* the warnings that are about memory or the level, not about the CPU
NotCpuWarnings == SelectSeq(warnings, LAMBDA w : w # "high_cpu")

\* C12: when the memory probe fails (the command cannot be run, times out,
\* exits nonzero, or prints what cannot be parsed) the operation is not
\* aborted by the failure, no memory estimate is made, and the warning about
\* the elevated level is issued exactly when the level is 8 or more; below 8
\* there is no memory warning at all.
C12_ProbeFailureDegrades ==
    (rpc \in {"cpu", "decide", "returned"}
     /\ vm_stat.how \in ProbeExceptions \cup {"nonzero"}) =>
        /\ NotCpuWarnings = IF compression_level >= 8
                            THEN <<"extreme_level">> ELSE <<>>
        /\ (rpc = "returned" /\ proceed = "no") =>
               prompted = 1 /\ answer \notin {"y", "yes"}

\* a memory or CPU warning fired, as lines 212-216 and 229 decide it
MemoryWarningFired ==
    /\ vm_stat.how \in {"ok", "no_counts"}
    /\ \/ estimated_memory_tenths(compression_level) * KBPerGB
              > vm_stat.kb * 10
       \/ vm_stat.kb < 2 * KBPerGB

CpuWarningFired ==
    /\ load_avg.how = "ok"
    /\ load_avg.load100 > 70 * load_avg.cpu_count

\* C13: below level 8 the user is asked iff a memory or CPU warning fired,
\* and the method reports "proceed" iff no warning fired or the user answered
\* yes; level 0 with at least 2 GB available and a CPU load of at most 70%
\* gives no warning and no question.
C13_LowLevelPromptsIffWarned ==
    (rpc = "returned" /\ compression_level < 8) =>
        /\ prompted = (IF MemoryWarningFired \/ CpuWarningFired THEN 1 ELSE 0)
        /\ proceed = "yes" <=>
               \/ ~(MemoryWarningFired \/ CpuWarningFired)
               \/ answer \in {"y", "yes"}
        /\ (compression_level = 0
            /\ vm_stat.how = "ok" /\ vm_stat.kb >= 2 * KBPerGB
            /\ load_avg.how = "ok"
            /\ load_avg.load100 <= 70 * load_avg.cpu_count) =>
               warnings = <<>> /\ prompted = 0 /\ proceed = "yes"

\* level 0, exactly 2 GB available, a load of exactly 70%: no question
C13_Witness ==
    /\ rpc = "returned"
    /\ compression_level = 0
    /\ vm_stat = [how |-> "ok", kb |-> 2 * KBPerGB]
    /\ load_avg = [how |-> "ok", load100 |-> 280, cpu_count |-> 4]
    /\ prompted = 0
    /\ proceed = "yes"

----------------------------------------------------------------------------
(* Properties of validate_files_for_archiving *)

\* the entry the path names lies under one of the denied directories
DeniedPrefixes ==
    { << <<"System">> >>, << <<"usr">>, <<"bin">> >>, << <<"private">> >> }

UnderDenied(p) ==
    \E d \in DeniedPrefixes : StartsWith(Entry(p, BaseDirs), d)

\* C6: validate_files_for_archiving never returns the same absolute path
\* twice, whatever the input: a repeated path, or two spellings of one entry.
C6_NoDuplicatePaths ==
    \A j, k \in 1..Len(validated_files) :
        j # k => validated_files[j] # validated_files[k]

\* C7: every path validate_files_for_archiving returns is absolute and does
\* not lie under a denied system prefix (/System, /usr/bin, /private), so
\* that no such path is among the sources of an archive creation command.
C7_NoDeniedPath ==
    /\ \A k \in 1..Len(validated_files) :
           /\ StartsWith(validated_files[k], <<SEP>>)
           /\ ~UnderDenied(validated_files[k])
    /\ cpc = "ran" =>
           \A k \in 1..Len(validated_files) :
               ~UnderDenied(CmdSources(create_cmd)[k])

----------------------------------------------------------------------------
(* Properties of check_disk_space *)

\* the directory that is to hold the output
ContainingDir ==
    IF dirname(disk_output_path) = <<>> THEN Cwd
    ELSE dirname(disk_output_path)

\* C14: with a known nonzero estimate E and F free at the directory that
\* is to hold the output: F < 1.2 E blocks the operation unless the user
\* answers yes to the question; 1.2 E <= F < 2.4 E lets it go on with a
\* notice; F >= 2.4 E lets it go on silently; and a failure to read the
\* disk state never blocks it.
C14_DiskSpaceThresholds ==
    dpc = "returned" =>
        IF ~exists(ContainingDir, {})
        THEN disk_outcome.result
        ELSE (estimated_size_mb # <<>> /\ estimated_size_mb[1] > 0) =>
             LET E == estimated_size_mb[1]
                 F == free_at[ContainingDir]
             IN  /\ 5 * F < 6 * E =>
                        /\ disk_outcome.asked
                        /\ disk_outcome.result <=>
                               strip_lower(continue_anyway) \in {"y", "yes"}
                 /\ (6 * E <= 5 * F /\ 5 * F < 12 * E) =>
                        /\ disk_outcome.result
                        /\ ~disk_outcome.asked
                        /\ disk_outcome.notice = "tight"
                 /\ 12 * E <= 5 * F =>
                        /\ disk_outcome.result
                        /\ ~disk_outcome.asked
                        /\ disk_outcome.notice = "none"

----------------------------------------------------------------------------
(* Properties of create_archive *)

\* the arguments of the creation command that begin with a given switch
FlagArgs(flag) == { a \in ArgsOf(create_cmd) : a[1] = flag }

\* the output path ends in the extension, in whatever case
OutputEndsIn(ext) == EndsWith(lower_ext(output_path), <<DOT, ext>>)

\* C15: the archiver is run on an output path that is there already only
\* if the user chose "overwrite" at the question, and -y is among the
\* arguments exactly then; "different filename" followed by a path that is
\* there too, "cancel", and an invalid choice never lead to a run.
C15_OverwriteOnlyWhenChosen ==
    /\ cpc = "ran" =>
           /\ exists(output_path, {}) =>
                  overwrite_existing /\ exists_choice = "1"
           /\ <<"-y">> \in ArgsOf(create_cmd) <=>
                  (exists(first_path, {}) /\ exists_choice = "1")
    /\ (exists(first_path, {})
        /\ \/ exists_choice \notin {"1", "2"}
           \/ exists_choice = "2" /\ exists(output_path, {})) =>
           cpc = "returned" /\ create_cmd = <<>>

\* the archiver ran on an archive that was there, with -y, after the user
\* chose to overwrite it
C15_Witness ==
    /\ cpc = "ran"
    /\ exists(output_path, {})
    /\ exists_choice = "1"
    /\ <<"-y">> \in ArgsOf(create_cmd)

C17_CommandFlagsFollowThePlan ==
    cpc = "ran" =>
        /\ FlagArgs("-mx") = IF OutputEndsIn("tar") THEN {}
                             ELSE { <<"-mx", create_level>> }
        /\ FlagArgs("-v") = IF split_size = <<>> THEN {}
                            ELSE { <<"-v">> \o split_size }
        /\ FlagArgs("-p") = IF password = <<>> THEN {}
                            ELSE { <<"-p">> \o password }
        /\ <<"-mhe=on">> \in ArgsOf(create_cmd) <=>
               (password # <<>> /\ OutputEndsIn("7z"))

\* a zip archive with a password and a custom split size: -p and -v, and no
\* header encryption
C17_Witness ==
    /\ cpc = "ran"
    /\ OutputEndsIn("zip")
    /\ password = <<"secret">>
    /\ split_size = <<"500m">>
    /\ FlagArgs("-v") = { <<"-v", "500m">> }
    /\ <<"-mhe=on">> \notin ArgsOf(create_cmd)

----------------------------------------------------------------------------
(* Properties of get_compression_level *)

Preset == preferences["compression_preset"]

SavedLevel == preferences["custom_compression_level"]

\* the level 9 question was asked and answered with a yes
Level9Confirmed ==
    /\ level_prompts # <<>>
    /\ level_prompts[Len(level_prompts)] = "confirm9"
    /\ confirm_typed \in {"y", "Y"}

\* the call took a path that selects level 9
Selected9 ==
    \/ Preset = "maximum"
    \/ Preset = "custom" /\ SavedLevel = "9"
    \/ Preset = "ask" /\ menu_choice = "3"
    \/ Preset = "ask" /\ menu_choice = "4" /\ custom_typed = "9"

\* C18: get_compression_level returns 9 only after a yes to the level 9
\* question, on each path that selects 9 (preset "maximum", a saved custom
\* level of 9, menu option 3, a custom level of 9 typed in), and 5 when that
\* question is declined; the presets "fast", "balanced" and a saved custom
\* level below 9 are used without any question; the preset "ask" is settled
\* by an interactive choice.
C18_Level9OnlyAfterConfirmation ==
    lpc = "returned" =>
        /\ level_returned = "9" => Level9Confirmed
        /\ Selected9 =>
               /\ "confirm9" \in { level_prompts[k] :
                                      k \in 1..Len(level_prompts) }
               /\ level_returned = IF Level9Confirmed THEN "9" ELSE "5"
        /\ Preset = "fast" => level_returned = "1" /\ level_prompts = <<>>
        /\ Preset = "balanced" =>
               level_returned = "5" /\ level_prompts = <<>>
        /\ (Preset = "custom" /\ SavedLevel \in {"0", "5", "8"}) =>
               level_returned = SavedLevel /\ level_prompts = <<>>
        /\ Preset = "ask" =>
               /\ level_prompts # <<>>
               /\ level_prompts[1] = "menu"
               /\ menu_choice \in {"", "1", "2", "3", "4"}

\* from "ask": custom level 9 typed in, the question declined, 5 returned
C18_Witness ==
    /\ lpc = "returned"
    /\ Preset = "ask"
    /\ level_prompts = <<"menu", "custom", "confirm9">>
    /\ confirm_typed = "yes"
    /\ level_returned = "5"

----------------------------------------------------------------------------
(* Properties of the resolution of paths *)

\* the resolution the program is to apply to one candidate: the original
\* form if it names an existing entry, else the unescaped form if that one
\* does, else nothing
ResolveOne(path) ==
    LET forms == clean_macos_path(path)
    IN  IF exists(forms[1], {}) THEN <<forms[1]>>
        ELSE IF exists(forms[2], {}) THEN <<forms[2]>>
        ELSE <<>>

RECURSIVE ResolveAll(_)
ResolveAll(tagged) ==
    IF tagged = <<>> THEN <<>>
    ELSE ResolveOne(Head(tagged)[2]) \o ResolveAll(Tail(tagged))

\* what validation is to keep of the accepted paths
RECURSIVE ResolveAndFilter(_)
ResolveAndFilter(paths) ==
    IF paths = <<>> THEN <<>>
    ELSE LET r == ResolveOne(Head(paths))
         IN  (IF r = <<>> \/ DeniedByPrefix(abspath(r[1])) THEN <<>>
              ELSE <<abspath(r[1])>>)
             \o ResolveAndFilter(Tail(paths))

Validated == cpc \in {"plan", "password", "level", "split", "resources", "ran"}

\* C19: wherever a path the user gave is resolved (typed in, read from a
\* file list, validated for archiving) the original form is tried first and
\* the unescaped form is taken only if the original names nothing; a
\* candidate of which neither form names an entry is dropped, and the rest
\* of the batch is kept.
C19_OriginalFormFirst ==
    /\ cpc \in {"paths", "validate"} => all_files = ResolveAll(candidates)
    /\ Validated => validated_files = ResolveAndFilter(all_files)

\* C20: resolving a resolved form again gives that same form, so that each
\* path get_file_paths accepted still names its entry when
\* validate_files_for_archiving resolves it: unless it is denied, its
\* absolute path is among the validated files.
C20_ResolutionIdempotent ==
    /\ \A k \in 1..Len(all_files) :
           ResolveOne(all_files[k]) = <<all_files[k]>>
    /\ Validated =>
           \A k \in 1..Len(all_files) :
               ~DeniedByPrefix(abspath(all_files[k])) =>
                   \E j \in 1..Len(validated_files) :
                       validated_files[j] = abspath(all_files[k])

----------------------------------------------------------------------------
(* Properties of the signal handlers and the keep-awake helper *)

\* C21: a signal received during an operation ends the process: once the
\* handler has stopped the helper and reached its exit statement, the
\* process has terminated with code 0, and no helper is left running.
C21_InterruptEndsTheProcess ==
    (operation \in Operations /\ goodbyes > 0) =>
        /\ exit_status = "exit0"
        /\ caffeinate_process # "running"

\* C22: the keep-awake helper is started before a long-running archiver
\* operation: when the archiver runs, start_caffeinate has been called
\* for this operation, and after the operation no helper is running.
C22_HelperAroundOperation ==
    /\ mpc = "archiver" => sleep_prompted
    /\ mpc \in {"pause", "menu"} => caffeinate_process # "running"

\* C29: a signal handled at any instant after the handlers are installed,
\* the rest of the construction included, never ends the process by an
\* unhandled error of the cleanup reading state that is not set yet.
C29_CleanupNeverReadsUnsetState ==
    exit_status # "AttributeError"

----------------------------------------------------------------------------
(* Properties of get_output_path and of the naming *)

\* C23: when the output is there already and the user chooses a different
\* filename, every answer to the second path prompt ends in a continued
\* operation or a reported cancellation: no unhandled error leaves
\* create_archive.
C23_SecondPathPromptNeverCrashes ==
    opc # "crashed"

\* C24: when get_output_path cannot create the missing parent directory,
\* it returns the requested file name in the directory of the preference
\* default_output_directory, whatever remember_last_directory and
\* last_output_directory are.
C24_FallbackIsTheDefaultDirectory ==
    (opc \in {"exists", "still_exists"} /\ out_call.parent = "failed") =>
        out_path = join(out_start.preferences["default_output_directory"],
                        basename(out_call.requested))

\* the base names the naming rules give several sources
Categories ==
    { <<"Photos">>, <<"Documents">>, <<"Videos">>, <<"Audio">>,
      <<"Project">>, <<"Mixed_Files">> }

\* C25: the suggested name of a single source is made of that source's
\* own name; that of several sources is one of the fixed categories
\* followed by the date.
C25_SmartNameFromSourceOrCategory ==
    opc = "output" =>
        LET name == generate_smart_archive_name(out_sources, {}) IN
        IF Len(out_sources) = 1
        THEN StartsWith(name,
                 splitext(basename(RStrip(out_sources[1], {SEP})))[1])
        ELSE \E c \in Categories : name = c \o <<"_", Today, DOT, "7z">>

\* C28: an operation cancelled before the archiver runs leaves the
\* persistent state as it was: an extraction ended by the Cancel policy or
\* by declining the last question has created no directory, and a creation
\* ended at any gate has changed neither the preference file nor the
\* file system.
C28_CancelLeavesStateUnchanged ==
    /\ (epc = "returned" /\ (resume_choice = "4" \/ idx = 1)) =>
           made_dirs = {}
    /\ opc = "returned" =>
           /\ cfg_file = out_start.file
           /\ out_made = {}

----------------------------------------------------------------------------
(* Properties of the gates of create_archive *)

AllGates == <<"sources", "output", "disk", "resources", "confirm">>

\* C26: the archiver is invoked at most once, and only after every gate
\* has let the operation go on, in this order: a validated source, an
\* output outside the system directories, the disk space check, the
\* resource check, "y" at the last question; an operation that a gate
\* ended has invoked no archiver.
C26_ArchiverOnlyAfterEveryGate ==
    [][ /\ create_cmd' # <<>> =>
               /\ gates' = AllGates
               /\ validated_files' # <<>>
               /\ ~OutputDenied(abspath(output_path'))
        /\ create_cmd # <<>> => create_cmd' = create_cmd
        /\ cpc' = "returned" =>
               /\ create_cmd' = <<>>
               /\ gates' # AllGates
      ]_vars

\* the archiver has run, every gate passed
C26_Witness ==
    /\ cpc = "ran"
    /\ create_cmd # <<>>
    /\ gates = AllGates

----------------------------------------------------------------------------
(* Properties of the level handed on *)

\* C27: the level get_compression_level returns to create_archive, which
\* hands it to the estimators and writes it into -mx<N>, is an integer
\* from 0 to 9, for every preference record load_preferences accepts and
\* every answer of the user.
C27_LevelWithinZeroToNine ==
    lpc = "returned" =>
        level_returned \in {"0", "1", "2", "3", "4", "5", "6", "7", "8", "9"}

----------------------------------------------------------------------------
(* Properties of the preference menus *)

\* C30: at the menu, after the start of the program and after every
\* preference operation whose save succeeded, load_preferences on the
\* file gives a record equal, key for key, to the one in memory.
C30_ReloadEqualsMemory ==
    [][ ((ppc = "start" \/ ppc = "save_write") /\ ppc' = "menu") =>
            load_preferences(cfg_file').prefs = preferences'
      ]_vars

====
